---- MODULE Spec2Model ----
(***************************************************************************)
(* Discrete-event simulation engine of src/src/simulacion_colas.cpp:       *)
(* SimulacionColas, Estacion, GeneradorAleatorio, Evento, Cliente.         *)
(*                                                                         *)
(* Time is measured in whole ticks (the doubles of the source become       *)
(* integers).  The Mersenne Twister of GeneradorAleatorio is a 16-bit      *)
(* linear congruential generator: a seeded state, advanced once per draw.  *)
(* An engine is a record; every method is an operator from engine (or      *)
(* station) records to engine (or station) records.  Sequences are 1-based,*)
(* customer and station ids are 0-based as in the source: the customer     *)
(* with id k is clientes[k + 1], the station with id s is estaciones[s+1]. *)
(***************************************************************************)
EXTENDS Integers, Sequences, FiniteSets, TLC

\* ------------------------------------------------------------------------
\* Bounds of the model
\* ------------------------------------------------------------------------
MaxSemilla == 23
MaxDuracion == 5
MaxServidores == 2
MaxGeom == 2
MaxCorridas == 2

\* ------------------------------------------------------------------------
\* enum IDEstacion, enum TipoEvento
\* ------------------------------------------------------------------------
CAJAS == 0
REFRESCOS == 1
FREIDORA == 2
POSTRES == 3
POLLO == 4
NUM_ESTACIONES == 5

LLEGADA == "LLEGADA"
FIN_SERVICIO == "FIN_SERVICIO"

\* Visit probabilities, in percent
probabilidadesEstaciones == <<100, 90, 70, 25, 30>>

\* Arrival rates (customers per 1000 ticks) the drivers construct engines with
TasasLlegada == {800, 3000}

Max(a, b) == IF a >= b THEN a ELSE b

\* F(v), with v evaluated once (a local variable of the source)
Sea(v, F(_)) == CHOOSE y \in {F(x) : x \in {v}} : TRUE

\* ------------------------------------------------------------------------
\* class Evento
\* ------------------------------------------------------------------------
Evento(t, tp, idC, idE) ==
    [tiempo |-> t, tipo |-> tp, idCliente |-> idC, idEstacion |-> idE]

\* slip: the comparison is the other way round
EventoMayor_invertido(a, b) == a.tiempo < b.tiempo

\* Evento::operator>
EventoMayor(a, b) == a.tiempo > b.tiempo

\* ------------------------------------------------------------------------
\* priority_queue<Evento, vector<Evento>, greater<Evento>>: a binary heap
\* kept in a vector by std::push_heap / std::pop_heap (0-based positions).
\* ------------------------------------------------------------------------
RECURSIVE PushHeapAux(_, _, _, _)
PushHeapAux(h, hole, top, value) ==
    IF hole > top /\ EventoMayor(h[((hole - 1) \div 2) + 1], value)
    THEN PushHeapAux([h EXCEPT ![hole + 1] = h[((hole - 1) \div 2) + 1]],
                     (hole - 1) \div 2, top, value)
    ELSE [h EXCEPT ![hole + 1] = value]

RECURSIVE AdjustHeapDown(_, _, _)
AdjustHeapDown(h, hole, len) ==
    IF hole < (len - 1) \div 2
    THEN LET r == 2 * (hole + 1)
             c == IF EventoMayor(h[r + 1], h[r]) THEN r - 1 ELSE r
         IN  AdjustHeapDown([h EXCEPT ![hole + 1] = h[c + 1]], c, len)
    ELSE IF len % 2 = 0 /\ hole = (len - 2) \div 2
    THEN LET c == 2 * (hole + 1) - 1
         IN  [h |-> [h EXCEPT ![hole + 1] = h[c + 1]], hole |-> c]
    ELSE [h |-> h, hole |-> hole]

\* colaEventos.push(e)
ColaPush(h, e) == PushHeapAux(Append(h, e), Len(h), 0, e)

\* colaEventos.top()
ColaTop(h) == h[1]

\* colaEventos.pop()
ColaPop(h) ==
    LET n == Len(h) IN
    IF n <= 1 THEN <<>>
    ELSE LET value == h[n]
             d == AdjustHeapDown([h EXCEPT ![n] = h[1]], 0, n - 1)
         IN  SubSeq(PushHeapAux(d.h, d.hole, 0, value), 1, n - 1)

\* ------------------------------------------------------------------------
\* class GeneradorAleatorio
\* ------------------------------------------------------------------------
\* rng(semilla), setSemilla
Sembrar(semilla) == semilla % 65536

\* one step of the generator
RngAvanzar(r) == (25173 * r + 13849) % 65536

\* the number the generator hands to a distribution, 0..255
RngSalida(r) == r \div 256

\* exponential_distribution<>(rate): a strictly positive duration, in ticks
Exponencial(r, rate) == 1 + (RngSalida(r) * 2000) \div (256 * rate)

tiempoEntreLlegadas(r, lambda) == Exponencial(r, lambda)

tiempoServicioExp(r, mu) == Exponencial(r, mu)

\* round(normal(media, desvEst)) where dosDesv is twice desvEst, floored at 1
tiempoServicioNormDisc(r, media, dosDesv) ==
    LET z == (RngSalida(r) * 5) \div 256 - 2
        valor == (2 * media + z * dosDesv + 1) \div 2
    IN  Max(1, valor)

\* binomial(n, p), floored at 1
tiempoServicioBinom(r, n) ==
    LET valor == (RngSalida(r) * (n + 1)) \div 256
    IN  Max(1, valor)

\* geometric(p) + 1
tiempoServicioGeom(r) == (RngSalida(r) * (MaxGeom + 1)) \div 256 + 1

\* max(1, binomial(5, 0.4))
numeroOrdenes(r) == Max(1, (RngSalida(r) * 6) \div 256)

\* uniform(0,1) < proba, in percent
debeVisitar(r, proba) == (RngSalida(r) * 100) \div 256 < proba

\* ------------------------------------------------------------------------
\* class Cliente
\* ------------------------------------------------------------------------
Cliente ==
    [id |-> 0, tiempoLlegada |-> 0, tiempoEsperaTotal |-> 0,
     tiempoServicioTotal |-> 0, estaciones |-> <<>>, numOrdenes |-> 0,
     indiceEstacionActual |-> 0, tiempoEntradaCola |-> 0]

getTiempoTotal(c) == c.tiempoEsperaTotal + c.tiempoServicioTotal

\* ------------------------------------------------------------------------
\* class Estacion
\* ------------------------------------------------------------------------
Estacion(idEstacion, servidores) ==
    [id |-> idEstacion, numServidores |-> servidores, colaEspera |-> <<>>,
     servidorOcupado |-> [k \in 1..servidores |-> FALSE],
     tiempoTotalOcupado |-> 0, tiempoUltimoCambio |-> 0,
     totalAtendidos |-> 0]

\* slip: the busy time is brought up to date at every enqueue
agregarCliente_actualiza(est, idCliente, tiempoActual) ==
    [est EXCEPT
       !.colaEspera = Append(@, idCliente),
       !.tiempoTotalOcupado =
           @ + Cardinality({k \in DOMAIN est.servidorOcupado :
                               est.servidorOcupado[k]})
               * (tiempoActual - est.tiempoUltimoCambio),
       !.tiempoUltimoCambio = tiempoActual]

agregarCliente(est, idCliente, tiempoActual) ==
    [est EXCEPT !.colaEspera = Append(@, idCliente)]

\* slip: a server counts as available only when all of them are free
hayServidorDisponible_todos(est) ==
    \A k \in DOMAIN est.servidorOcupado : ~est.servidorOcupado[k]

hayServidorDisponible(est) ==
    \E k \in DOMAIN est.servidorOcupado : ~est.servidorOcupado[k]

\* number of servers whose flag is set
ServidoresOcupados(est) ==
    Cardinality({k \in DOMAIN est.servidorOcupado : est.servidorOcupado[k]})

\* slip: the interval is measured from time 0, not from the last change
actualizarTiempoOcupado_desdeCero(est, tiempoActual) ==
    [est EXCEPT
       !.tiempoTotalOcupado = @ + ServidoresOcupados(est) * tiempoActual,
       !.tiempoUltimoCambio = tiempoActual]

actualizarTiempoOcupado(est, tiempoActual) ==
    [est EXCEPT
       !.tiempoTotalOcupado =
           @ + ServidoresOcupados(est) * (tiempoActual - est.tiempoUltimoCambio),
       !.tiempoUltimoCambio = tiempoActual]

\* index of the first server whose flag equals b, 0 when there is none
PrimerServidor(est, b) ==
    LET S == {k \in DOMAIN est.servidorOcupado : est.servidorOcupado[k] = b}
    IN  IF S = {} THEN 0 ELSE CHOOSE k \in S : \A j \in S : k <= j

\* slip: the customer is taken from the back of the queue
Estacion_iniciarServicio_LIFO(est, tiempoActual) ==
    IF est.colaEspera = <<>> THEN [ret |-> -1, est |-> est]
    ELSE IF PrimerServidor(est, FALSE) = 0 THEN [ret |-> -1, est |-> est]
    ELSE [ret |-> est.colaEspera[Len(est.colaEspera)],
          est |-> actualizarTiempoOcupado(
                    [est EXCEPT
                       !.colaEspera = SubSeq(@, 1, Len(@) - 1),
                       !.servidorOcupado[PrimerServidor(est, FALSE)] = TRUE],
                    tiempoActual)]

\* slip: the customer is read from the front of the queue but not popped
Estacion_iniciarServicio_sinPop(est, tiempoActual) ==
    IF est.colaEspera = <<>> THEN [ret |-> -1, est |-> est]
    ELSE IF PrimerServidor(est, FALSE) = 0 THEN [ret |-> -1, est |-> est]
    ELSE [ret |-> Head(est.colaEspera),
          est |-> actualizarTiempoOcupado(
                    [est EXCEPT
                       !.servidorOcupado[PrimerServidor(est, FALSE)] = TRUE],
                    tiempoActual)]

\* slip: the customer is popped before a free server is looked for
Estacion_iniciarServicio_popAntes(est, tiempoActual) ==
    IF est.colaEspera = <<>> THEN [ret |-> -1, est |-> est]
    ELSE IF PrimerServidor(est, FALSE) = 0
    THEN [ret |-> -1, est |-> [est EXCEPT !.colaEspera = Tail(@)]]
    ELSE [ret |-> Head(est.colaEspera),
          est |-> actualizarTiempoOcupado(
                    [est EXCEPT
                       !.colaEspera = Tail(@),
                       !.servidorOcupado[PrimerServidor(est, FALSE)] = TRUE],
                    tiempoActual)]

\* Estacion::iniciarServicio: ret is the id it returns, est the station it
\* leaves
Estacion_iniciarServicio(est, tiempoActual) ==
    IF est.colaEspera = <<>> THEN [ret |-> -1, est |-> est]
    ELSE IF PrimerServidor(est, FALSE) = 0 THEN [ret |-> -1, est |-> est]
    ELSE [ret |-> Head(est.colaEspera),
          est |-> actualizarTiempoOcupado(
                    [est EXCEPT
                       !.colaEspera = Tail(@),
                       !.servidorOcupado[PrimerServidor(est, FALSE)] = TRUE],
                    tiempoActual)]

\* slip: the loop does not stop at the first busy server, it frees them all
finalizarServicio_liberaTodos(est, tiempoActual) ==
    IF PrimerServidor(est, TRUE) = 0 THEN est
    ELSE [actualizarTiempoOcupado(
            [est EXCEPT !.servidorOcupado =
                [k \in DOMAIN est.servidorOcupado |-> FALSE]],
            tiempoActual)
          EXCEPT !.totalAtendidos = @ + 1]

\* slip: the accounting is done whether or not a busy server was found
finalizarServicio_cuentaSiempre(est, tiempoActual) ==
    [actualizarTiempoOcupado(
        [est EXCEPT !.servidorOcupado =
            [k \in DOMAIN est.servidorOcupado |->
                IF k = PrimerServidor(est, TRUE) THEN FALSE
                ELSE est.servidorOcupado[k]]],
        tiempoActual)
     EXCEPT !.totalAtendidos = @ + 1]

finalizarServicio(est, tiempoActual) ==
    IF PrimerServidor(est, TRUE) = 0 THEN est
    ELSE [actualizarTiempoOcupado(
            [est EXCEPT !.servidorOcupado[PrimerServidor(est, TRUE)] = FALSE],
            tiempoActual)
          EXCEPT !.totalAtendidos = @ + 1]

\* a rational number num / den
Racional(n, d) == [num |-> n, den |-> d]

\* slip: the test of the number of servers is missing
getUtilizacion_soloTiempo(est, tiempoTotal) ==
    IF tiempoTotal = 0 THEN Racional(0, 1)
    ELSE Racional(est.tiempoTotalOcupado, est.numServidores * tiempoTotal)

getUtilizacion(est, tiempoTotal) ==
    IF tiempoTotal = 0 \/ est.numServidores = 0 THEN Racional(0, 1)
    ELSE Racional(est.tiempoTotalOcupado, est.numServidores * tiempoTotal)

\* slip: the test is inverted
estaVacia_invertida(est) == est.colaEspera # <<>>

estaVacia(est) == est.colaEspera = <<>>

\* ------------------------------------------------------------------------
\* class ConfiguracionServidores
\* ------------------------------------------------------------------------
ConfiguracionServidores(c, r, f, p, pl) ==
    [cajas |-> c, refrescos |-> r, freidora |-> f, postres |-> p, pollo |-> pl]

\* ------------------------------------------------------------------------
\* class SimulacionColas
\* ------------------------------------------------------------------------
\* slip: the generator is seeded per instance, not from the seed alone
SimulacionColas_semillaPorInstancia(yo, duracion, lambda, semilla) ==
    [colaEventos |-> <<>>, estaciones |-> <<>>, clientes |-> <<>>,
     clientesCompletados |-> <<>>, rng |-> Sembrar(semilla + yo),
     tiempoActual |-> 0, duracionSimulacion |-> duracion,
     tiempoFinalReal |-> 0, siguienteIdCliente |-> 0,
     tasaLlegada |-> lambda]

\* yo is the instance under construction (the C++ this)
SimulacionColas(yo, duracion, lambda, semilla) ==
    [colaEventos |-> <<>>, estaciones |-> <<>>, clientes |-> <<>>,
     clientesCompletados |-> <<>>, rng |-> Sembrar(semilla),
     tiempoActual |-> 0, duracionSimulacion |-> duracion,
     tiempoFinalReal |-> 0, siguienteIdCliente |-> 0,
     tasaLlegada |-> lambda]

\* slip: the completed set of the previous run is not cleared
inicializar_sinLimpiarCompletados(eng, config) ==
    LET r1 == RngAvanzar(eng.rng)
        primeraLlegada == tiempoEntreLlegadas(r1, eng.tasaLlegada)
    IN  [eng EXCEPT
           !.estaciones = <<Estacion(CAJAS, config.cajas),
                            Estacion(REFRESCOS, config.refrescos),
                            Estacion(FREIDORA, config.freidora),
                            Estacion(POSTRES, config.postres),
                            Estacion(POLLO, config.pollo)>>,
           !.clientes = <<>>,
           !.tiempoActual = 0,
           !.siguienteIdCliente = 0,
           !.rng = r1,
           !.colaEventos = ColaPush(<<>>, Evento(primeraLlegada, LLEGADA, -1, -1))]

\* slip: the events of the previous initialization are left in the queue
inicializar_sinVaciarEventos(eng, config) ==
    LET r1 == RngAvanzar(eng.rng)
        primeraLlegada == tiempoEntreLlegadas(r1, eng.tasaLlegada)
    IN  [eng EXCEPT
           !.estaciones = <<Estacion(CAJAS, config.cajas),
                            Estacion(REFRESCOS, config.refrescos),
                            Estacion(FREIDORA, config.freidora),
                            Estacion(POSTRES, config.postres),
                            Estacion(POLLO, config.pollo)>>,
           !.clientes = <<>>,
           !.clientesCompletados = <<>>,
           !.tiempoActual = 0,
           !.siguienteIdCliente = 0,
           !.rng = r1,
           !.colaEventos = ColaPush(@, Evento(primeraLlegada, LLEGADA, -1, -1))]

inicializar(eng, config) ==
    LET r1 == RngAvanzar(eng.rng)
        primeraLlegada == tiempoEntreLlegadas(r1, eng.tasaLlegada)
    IN  [eng EXCEPT
           !.estaciones = <<Estacion(CAJAS, config.cajas),
                            Estacion(REFRESCOS, config.refrescos),
                            Estacion(FREIDORA, config.freidora),
                            Estacion(POSTRES, config.postres),
                            Estacion(POLLO, config.pollo)>>,
           !.clientes = <<>>,
           !.clientesCompletados = <<>>,
           !.tiempoActual = 0,
           !.siguienteIdCliente = 0,
           !.rng = r1,
           !.colaEventos = ColaPush(<<>>, Evento(primeraLlegada, LLEGADA, -1, -1))]

\* the duration a service at idEstacion takes, from generator state r
getTiempoServicio(r, idEstacion) ==
    CASE idEstacion = CAJAS     -> tiempoServicioExp(r, 400)
      [] idEstacion = REFRESCOS -> tiempoServicioExp(r, 1333)
      [] idEstacion = FREIDORA  -> tiempoServicioNormDisc(r, 3, 1)
      [] idEstacion = POSTRES   -> tiempoServicioBinom(r, 5)
      [] idEstacion = POLLO     -> tiempoServicioGeom(r)
      [] OTHER                  -> 1

\* slip: the wait is measured from the arrival into the system
iniciarServicio_esperaDesdeLlegada(eng, idEstacion) ==
    Sea(Estacion_iniciarServicio(eng.estaciones[idEstacion + 1], eng.tiempoActual),
        LAMBDA inicio :
           LET idCliente == inicio.ret IN
           IF idCliente < 0 THEN eng
           ELSE
           LET c == eng.clientes[idCliente + 1]
               tiempoEspera == eng.tiempoActual - c.tiempoLlegada
               r1 == RngAvanzar(eng.rng)
               tiempoServicio == getTiempoServicio(r1, idEstacion)
               tiempoFin == eng.tiempoActual + tiempoServicio
           IN  [eng EXCEPT
                  !.estaciones[idEstacion + 1] = inicio.est,
                  !.clientes[idCliente + 1].tiempoEsperaTotal = @ + tiempoEspera,
                  !.clientes[idCliente + 1].tiempoServicioTotal = @ + tiempoServicio,
                  !.rng = r1,
                  !.colaEventos =
                      ColaPush(@, Evento(tiempoFin, FIN_SERVICIO, idCliente, idEstacion))])

\* slip: the end of the service is the duration, not the clock plus it
iniciarServicio_finAbsoluto(eng, idEstacion) ==
    Sea(Estacion_iniciarServicio(eng.estaciones[idEstacion + 1], eng.tiempoActual),
        LAMBDA inicio :
           LET idCliente == inicio.ret IN
           IF idCliente < 0 THEN eng
           ELSE
           LET c == eng.clientes[idCliente + 1]
               tiempoEspera == eng.tiempoActual - c.tiempoEntradaCola
               r1 == RngAvanzar(eng.rng)
               tiempoServicio == getTiempoServicio(r1, idEstacion)
               tiempoFin == tiempoServicio
           IN  [eng EXCEPT
                  !.estaciones[idEstacion + 1] = inicio.est,
                  !.clientes[idCliente + 1].tiempoEsperaTotal = @ + tiempoEspera,
                  !.clientes[idCliente + 1].tiempoServicioTotal = @ + tiempoServicio,
                  !.rng = r1,
                  !.colaEventos =
                      ColaPush(@, Evento(tiempoFin, FIN_SERVICIO, idCliente, idEstacion))])

\* slip: the two ids of the FIN_SERVICIO event are given in the other order
iniciarServicio_idsCambiados(eng, idEstacion) ==
    Sea(Estacion_iniciarServicio(eng.estaciones[idEstacion + 1], eng.tiempoActual),
        LAMBDA inicio :
           LET idCliente == inicio.ret IN
           IF idCliente < 0 THEN eng
           ELSE
           LET c == eng.clientes[idCliente + 1]
               tiempoEspera == eng.tiempoActual - c.tiempoEntradaCola
               r1 == RngAvanzar(eng.rng)
               tiempoServicio == getTiempoServicio(r1, idEstacion)
               tiempoFin == eng.tiempoActual + tiempoServicio
           IN  [eng EXCEPT
                  !.estaciones[idEstacion + 1] = inicio.est,
                  !.clientes[idCliente + 1].tiempoEsperaTotal = @ + tiempoEspera,
                  !.clientes[idCliente + 1].tiempoServicioTotal = @ + tiempoServicio,
                  !.rng = r1,
                  !.colaEventos =
                      ColaPush(@, Evento(tiempoFin, FIN_SERVICIO, idEstacion, idCliente))])

\* SimulacionColas::iniciarServicio
iniciarServicio(eng, idEstacion) ==
    Sea(Estacion_iniciarServicio(eng.estaciones[idEstacion + 1], eng.tiempoActual),
        LAMBDA inicio :
           LET idCliente == inicio.ret IN
           IF idCliente < 0 THEN eng
           ELSE
           LET c == eng.clientes[idCliente + 1]
               tiempoEspera == eng.tiempoActual - c.tiempoEntradaCola
               r1 == RngAvanzar(eng.rng)
               tiempoServicio == getTiempoServicio(r1, idEstacion)
               tiempoFin == eng.tiempoActual + tiempoServicio
           IN  [eng EXCEPT
                  !.estaciones[idEstacion + 1] = inicio.est,
                  !.clientes[idCliente + 1].tiempoEsperaTotal = @ + tiempoEspera,
                  !.clientes[idCliente + 1].tiempoServicioTotal = @ + tiempoServicio,
                  !.rng = r1,
                  !.colaEventos =
                      ColaPush(@, Evento(tiempoFin, FIN_SERVICIO, idCliente, idEstacion))])

\* slip: the push of CAJAS is missing, the route holds the drawn stations only
Ruta_sinCajas(r2, r3, r4, r5) ==
    (IF debeVisitar(r2, probabilidadesEstaciones[REFRESCOS + 1])
     THEN <<REFRESCOS>> ELSE <<>>)
    \o (IF debeVisitar(r3, probabilidadesEstaciones[FREIDORA + 1])
        THEN <<FREIDORA>> ELSE <<>>)
    \o (IF debeVisitar(r4, probabilidadesEstaciones[POSTRES + 1])
        THEN <<POSTRES>> ELSE <<>>)
    \o (IF debeVisitar(r5, probabilidadesEstaciones[POLLO + 1])
        THEN <<POLLO>> ELSE <<>>)

\* slip: FREIDORA is tried and listed before REFRESCOS
Ruta_desordenada(r2, r3, r4, r5) ==
    <<CAJAS>>
    \o (IF debeVisitar(r3, probabilidadesEstaciones[FREIDORA + 1])
        THEN <<FREIDORA>> ELSE <<>>)
    \o (IF debeVisitar(r2, probabilidadesEstaciones[REFRESCOS + 1])
        THEN <<REFRESCOS>> ELSE <<>>)
    \o (IF debeVisitar(r4, probabilidadesEstaciones[POSTRES + 1])
        THEN <<POSTRES>> ELSE <<>>)
    \o (IF debeVisitar(r5, probabilidadesEstaciones[POLLO + 1])
        THEN <<POLLO>> ELSE <<>>)

\* the route drawn for a new customer from four consecutive generator states
Ruta(r2, r3, r4, r5) ==
    <<CAJAS>>
    \o (IF debeVisitar(r2, probabilidadesEstaciones[REFRESCOS + 1])
        THEN <<REFRESCOS>> ELSE <<>>)
    \o (IF debeVisitar(r3, probabilidadesEstaciones[FREIDORA + 1])
        THEN <<FREIDORA>> ELSE <<>>)
    \o (IF debeVisitar(r4, probabilidadesEstaciones[POSTRES + 1])
        THEN <<POSTRES>> ELSE <<>>)
    \o (IF debeVisitar(r5, probabilidadesEstaciones[POLLO + 1])
        THEN <<POLLO>> ELSE <<>>)

\* slip: an arrival at the horizon itself is scheduled too
procesarLlegada_cola_incluyeHorizonte(eng1) ==
    Sea(IF hayServidorDisponible(eng1.estaciones[CAJAS + 1])
        THEN iniciarServicio(eng1, CAJAS)
        ELSE eng1,
        LAMBDA eng2 :
           LET r6 == RngAvanzar(eng2.rng)
               siguienteLlegada ==
                   eng2.tiempoActual + tiempoEntreLlegadas(r6, eng2.tasaLlegada)
           IN  [eng2 EXCEPT
                  !.rng = r6,
                  !.colaEventos =
                      IF siguienteLlegada <= eng2.duracionSimulacion
                      THEN ColaPush(@, Evento(siguienteLlegada, LLEGADA, -1, -1))
                      ELSE @])

\* slip: the next arrival is pushed twice
procesarLlegada_cola_dosLlegadas(eng1) ==
    Sea(IF hayServidorDisponible(eng1.estaciones[CAJAS + 1])
        THEN iniciarServicio(eng1, CAJAS)
        ELSE eng1,
        LAMBDA eng2 :
           LET r6 == RngAvanzar(eng2.rng)
               siguienteLlegada ==
                   eng2.tiempoActual + tiempoEntreLlegadas(r6, eng2.tasaLlegada)
           IN  [eng2 EXCEPT
                  !.rng = r6,
                  !.colaEventos =
                      IF siguienteLlegada < eng2.duracionSimulacion
                      THEN ColaPush(ColaPush(@, Evento(siguienteLlegada, LLEGADA, -1, -1)),
                                    Evento(siguienteLlegada, LLEGADA, -1, -1))
                      ELSE @])

\* procesarLlegada, from the enqueueing at CAJAS on
procesarLlegada_cola(eng1) ==
    Sea(IF hayServidorDisponible(eng1.estaciones[CAJAS + 1])
        THEN iniciarServicio(eng1, CAJAS)
        ELSE eng1,
        LAMBDA eng2 :
           LET r6 == RngAvanzar(eng2.rng)
               siguienteLlegada ==
                   eng2.tiempoActual + tiempoEntreLlegadas(r6, eng2.tasaLlegada)
           IN  [eng2 EXCEPT
                  !.rng = r6,
                  !.colaEventos =
                      IF siguienteLlegada < eng2.duracionSimulacion
                      THEN ColaPush(@, Evento(siguienteLlegada, LLEGADA, -1, -1))
                      ELSE @])

\* slip: the id counter is read but not incremented
procesarLlegada_sinIncremento(eng) ==
    LET r1 == RngAvanzar(eng.rng)
        r2 == RngAvanzar(r1)
        r3 == RngAvanzar(r2)
        r4 == RngAvanzar(r3)
        r5 == RngAvanzar(r4)
        c == [Cliente EXCEPT
                !.id = eng.siguienteIdCliente,
                !.tiempoLlegada = eng.tiempoActual,
                !.numOrdenes = numeroOrdenes(r1),
                !.indiceEstacionActual = 0,
                !.tiempoEntradaCola = eng.tiempoActual,
                !.estaciones = Ruta(r2, r3, r4, r5)]
    IN  Sea([eng EXCEPT
               !.rng = r5,
               !.clientes = Append(@, c),
               !.estaciones[CAJAS + 1] =
                   agregarCliente(@, c.id, eng.tiempoActual)],
            procesarLlegada_cola)

\* SimulacionColas::procesarLlegada
procesarLlegada(eng) ==
    LET r1 == RngAvanzar(eng.rng)
        r2 == RngAvanzar(r1)
        r3 == RngAvanzar(r2)
        r4 == RngAvanzar(r3)
        r5 == RngAvanzar(r4)
        c == [Cliente EXCEPT
                !.id = eng.siguienteIdCliente,
                !.tiempoLlegada = eng.tiempoActual,
                !.numOrdenes = numeroOrdenes(r1),
                !.indiceEstacionActual = 0,
                !.tiempoEntradaCola = eng.tiempoActual,
                !.estaciones = Ruta(r2, r3, r4, r5)]
    IN  Sea([eng EXCEPT
               !.siguienteIdCliente = @ + 1,
               !.rng = r5,
               !.clientes = Append(@, c),
               !.estaciones[CAJAS + 1] =
                   agregarCliente(@, c.id, eng.tiempoActual)],
            procesarLlegada_cola)

\* slip: the route index itself is taken as the id of the next station
procesarFinServicio_enruta_porIndice(eng1, idCliente) ==
    LET c == eng1.clientes[idCliente + 1] IN
    IF c.indiceEstacionActual < Len(c.estaciones)
    THEN LET siguienteEstacion == c.indiceEstacionActual
         IN  Sea([eng1 EXCEPT
                    !.clientes[idCliente + 1].tiempoEntradaCola =
                        eng1.tiempoActual,
                    !.estaciones[siguienteEstacion + 1] =
                        agregarCliente(@, c.id, eng1.tiempoActual)],
                 LAMBDA eng1a :
                    IF hayServidorDisponible(eng1a.estaciones[siguienteEstacion + 1])
                    THEN iniciarServicio(eng1a, siguienteEstacion)
                    ELSE eng1a)
    ELSE [eng1 EXCEPT !.clientesCompletados = Append(@, c)]

\* slip: the customer is recorded as completed after every service
procesarFinServicio_enruta_completaSiempre(eng1, idCliente) ==
    LET c == eng1.clientes[idCliente + 1] IN
    IF c.indiceEstacionActual < Len(c.estaciones)
    THEN LET siguienteEstacion == c.estaciones[c.indiceEstacionActual + 1]
         IN  Sea([eng1 EXCEPT
                    !.clientes[idCliente + 1].tiempoEntradaCola =
                        eng1.tiempoActual,
                    !.clientesCompletados = Append(@, c),
                    !.estaciones[siguienteEstacion + 1] =
                        agregarCliente(@, c.id, eng1.tiempoActual)],
                 LAMBDA eng1a :
                    IF hayServidorDisponible(eng1a.estaciones[siguienteEstacion + 1])
                    THEN iniciarServicio(eng1a, siguienteEstacion)
                    ELSE eng1a)
    ELSE [eng1 EXCEPT !.clientesCompletados = Append(@, c)]

\* slip: the time of entry to the next queue is not recorded
procesarFinServicio_enruta_sinEntradaCola(eng1, idCliente) ==
    LET c == eng1.clientes[idCliente + 1] IN
    IF c.indiceEstacionActual < Len(c.estaciones)
    THEN LET siguienteEstacion == c.estaciones[c.indiceEstacionActual + 1]
         IN  Sea([eng1 EXCEPT
                    !.estaciones[siguienteEstacion + 1] =
                        agregarCliente(@, c.id, eng1.tiempoActual)],
                 LAMBDA eng1a :
                    IF hayServidorDisponible(eng1a.estaciones[siguienteEstacion + 1])
                    THEN iniciarServicio(eng1a, siguienteEstacion)
                    ELSE eng1a)
    ELSE [eng1 EXCEPT !.clientesCompletados = Append(@, c)]

\* procesarFinServicio, the routing of customer c (already advanced)
procesarFinServicio_enruta(eng1, idCliente) ==
    LET c == eng1.clientes[idCliente + 1] IN
    IF c.indiceEstacionActual < Len(c.estaciones)
    THEN LET siguienteEstacion == c.estaciones[c.indiceEstacionActual + 1]
         IN  Sea([eng1 EXCEPT
                    !.clientes[idCliente + 1].tiempoEntradaCola =
                        eng1.tiempoActual,
                    !.estaciones[siguienteEstacion + 1] =
                        agregarCliente(@, c.id, eng1.tiempoActual)],
                 LAMBDA eng1a :
                    IF hayServidorDisponible(eng1a.estaciones[siguienteEstacion + 1])
                    THEN iniciarServicio(eng1a, siguienteEstacion)
                    ELSE eng1a)
    ELSE [eng1 EXCEPT !.clientesCompletados = Append(@, c)]

\* slip: the route index is advanced twice
procesarFinServicio_saltaDos(eng, e) ==
    LET idEstacion == e.idEstacion
        idCliente == e.idCliente
    IN  Sea(Sea([eng EXCEPT
                   !.estaciones[idEstacion + 1] =
                       finalizarServicio(@, eng.tiempoActual),
                   !.clientes[idCliente + 1].indiceEstacionActual = @ + 2],
                LAMBDA eng1 : procesarFinServicio_enruta(eng1, idCliente)),
            LAMBDA eng2 :
               IF ~estaVacia(eng2.estaciones[idEstacion + 1])
                  /\ hayServidorDisponible(eng2.estaciones[idEstacion + 1])
               THEN iniciarServicio(eng2, idEstacion)
               ELSE eng2)

\* slip: the next waiting customer of the freed station is not pulled
procesarFinServicio_sinRelevo(eng, e) ==
    LET idEstacion == e.idEstacion
        idCliente == e.idCliente
    IN  Sea(Sea([eng EXCEPT
                   !.estaciones[idEstacion + 1] =
                       finalizarServicio(@, eng.tiempoActual),
                   !.clientes[idCliente + 1].indiceEstacionActual = @ + 1],
                LAMBDA eng1 : procesarFinServicio_enruta(eng1, idCliente)),
            LAMBDA eng2 : eng2)

procesarFinServicio(eng, e) ==
    LET idEstacion == e.idEstacion
        idCliente == e.idCliente
    IN  Sea(Sea([eng EXCEPT
                   !.estaciones[idEstacion + 1] =
                       finalizarServicio(@, eng.tiempoActual),
                   !.clientes[idCliente + 1].indiceEstacionActual = @ + 1],
                LAMBDA eng1 : procesarFinServicio_enruta(eng1, idCliente)),
            LAMBDA eng2 :
               IF ~estaVacia(eng2.estaciones[idEstacion + 1])
                  /\ hayServidorDisponible(eng2.estaciones[idEstacion + 1])
               THEN iniciarServicio(eng2, idEstacion)
               ELSE eng2)

\* slip: the horizon also cuts the service completions
ejecutarIteracion_truncado(eng) ==
    LET e == ColaTop(eng.colaEventos) IN
    Sea([eng EXCEPT !.colaEventos = ColaPop(@), !.tiempoActual = e.tiempo],
        LAMBDA eng1 :
           IF eng1.tiempoActual < eng1.duracionSimulacion
           THEN IF e.tipo = LLEGADA
                THEN procesarLlegada(eng1)
                ELSE procesarFinServicio(eng1, e)
           ELSE eng1)

\* slip: arrivals are processed whatever the clock says
ejecutarIteracion_sinCorte(eng) ==
    LET e == ColaTop(eng.colaEventos) IN
    Sea([eng EXCEPT !.colaEventos = ColaPop(@), !.tiempoActual = e.tiempo],
        LAMBDA eng1 :
           IF e.tipo = LLEGADA
           THEN procesarLlegada(eng1)
           ELSE IF e.tipo = FIN_SERVICIO
           THEN procesarFinServicio(eng1, e)
           ELSE eng1)

\* slip: an arrival past the horizon is put back into the event queue
ejecutarIteracion_reencola(eng) ==
    LET e == ColaTop(eng.colaEventos) IN
    Sea([eng EXCEPT !.colaEventos = ColaPop(@), !.tiempoActual = e.tiempo],
        LAMBDA eng1 :
           IF e.tipo = LLEGADA
           THEN IF eng1.tiempoActual < eng1.duracionSimulacion
                THEN procesarLlegada(eng1)
                ELSE [eng1 EXCEPT !.colaEventos = ColaPush(@, e)]
           ELSE IF e.tipo = FIN_SERVICIO
           THEN procesarFinServicio(eng1, e)
           ELSE eng1)

\* one iteration of the loop of ejecutar (the event queue is not empty)
ejecutarIteracion(eng) ==
    LET e == ColaTop(eng.colaEventos) IN
    Sea([eng EXCEPT !.colaEventos = ColaPop(@), !.tiempoActual = e.tiempo],
        LAMBDA eng1 :
           IF e.tipo = LLEGADA
           THEN IF eng1.tiempoActual < eng1.duracionSimulacion
                THEN procesarLlegada(eng1)
                ELSE eng1
           ELSE IF e.tipo = FIN_SERVICIO
           THEN procesarFinServicio(eng1, e)
           ELSE eng1)

\* the exit of ejecutar
ejecutarRetorno(eng) == [eng EXCEPT !.tiempoFinalReal = eng.tiempoActual]

\* SimulacionColas::ejecutar, from the first test of its loop to its return
RECURSIVE ejecutar(_)
ejecutar(eng) ==
    IF eng.colaEventos = <<>> THEN ejecutarRetorno(eng)
    ELSE Sea(ejecutarIteracion(eng), LAMBDA eng1 : ejecutar(eng1))

\* sum of f[k] over k in 1..n
RECURSIVE SumaSeq(_, _)
SumaSeq(f, n) == IF n = 0 THEN 0 ELSE f[n] + SumaSeq(f, n - 1)

\* slip: the utilization is computed against the nominal horizon
getEstadisticas_horizonte(eng) ==
    LET n == Len(eng.clientesCompletados)
        cc == eng.clientesCompletados
        cuenta(k) == cc[k].indiceEstacionActual >= Len(cc[k].estaciones)
    IN  IF n = 0
        THEN [totalClientes |-> 0,
              tiempoEsperaPromedio |-> Racional(0, 1),
              varianzaTiempoEspera |-> Racional(0, 1),
              tiempoSistemaPromedio |-> Racional(0, 1),
              utilizacionEstaciones |->
                  [i \in 1..NUM_ESTACIONES |-> Racional(0, 1)]]
        ELSE
        LET sumaEspera ==
                SumaSeq([k \in 1..n |->
                           IF cuenta(k) THEN cc[k].tiempoEsperaTotal ELSE 0], n)
            sumaSistema ==
                SumaSeq([k \in 1..n |->
                           IF cuenta(k) THEN getTiempoTotal(cc[k]) ELSE 0], n)
            \* (w - sumaEspera/n)^2 = (n*w - sumaEspera)^2 / n^2
            sumaDiferenciasCuadradas ==
                SumaSeq([k \in 1..n |->
                           IF cuenta(k)
                           THEN (n * cc[k].tiempoEsperaTotal - sumaEspera)
                                * (n * cc[k].tiempoEsperaTotal - sumaEspera)
                           ELSE 0], n)
            tiempoSimulacion ==
                eng.duracionSimulacion
        IN  [totalClientes |-> n,
             tiempoEsperaPromedio |-> Racional(sumaEspera, n),
             varianzaTiempoEspera |-> Racional(sumaDiferenciasCuadradas, n * n * n),
             tiempoSistemaPromedio |-> Racional(sumaSistema, n),
             utilizacionEstaciones |->
                 [i \in 1..NUM_ESTACIONES |->
                    getUtilizacion(eng.estaciones[i], tiempoSimulacion)]]

\* slip: no early return, the sums are divided by a count of 0
getEstadisticas_sinRetornoTemprano(eng) ==
    LET n == Len(eng.clientesCompletados)
        cc == eng.clientesCompletados
        cuenta(k) == cc[k].indiceEstacionActual >= Len(cc[k].estaciones)
    IN  IF n = 0
        THEN [totalClientes |-> 0,
              tiempoEsperaPromedio |-> Racional(0, n),
              varianzaTiempoEspera |-> Racional(0, n * n * n),
              tiempoSistemaPromedio |-> Racional(0, n),
              utilizacionEstaciones |->
                  [i \in 1..NUM_ESTACIONES |-> Racional(0, 1)]]
        ELSE
        LET sumaEspera ==
                SumaSeq([k \in 1..n |->
                           IF cuenta(k) THEN cc[k].tiempoEsperaTotal ELSE 0], n)
            sumaSistema ==
                SumaSeq([k \in 1..n |->
                           IF cuenta(k) THEN getTiempoTotal(cc[k]) ELSE 0], n)
            \* (w - sumaEspera/n)^2 = (n*w - sumaEspera)^2 / n^2
            sumaDiferenciasCuadradas ==
                SumaSeq([k \in 1..n |->
                           IF cuenta(k)
                           THEN (n * cc[k].tiempoEsperaTotal - sumaEspera)
                                * (n * cc[k].tiempoEsperaTotal - sumaEspera)
                           ELSE 0], n)
            tiempoSimulacion ==
                IF eng.tiempoFinalReal > 0 THEN eng.tiempoFinalReal
                ELSE eng.duracionSimulacion
        IN  [totalClientes |-> n,
             tiempoEsperaPromedio |-> Racional(sumaEspera, n),
             varianzaTiempoEspera |-> Racional(sumaDiferenciasCuadradas, n * n * n),
             tiempoSistemaPromedio |-> Racional(sumaSistema, n),
             utilizacionEstaciones |->
                 [i \in 1..NUM_ESTACIONES |->
                    getUtilizacion(eng.estaciones[i], tiempoSimulacion)]]

\* slip: the variance is divided by n - 1 (sample variance)
getEstadisticas_varianzaMuestral(eng) ==
    LET n == Len(eng.clientesCompletados)
        cc == eng.clientesCompletados
        cuenta(k) == cc[k].indiceEstacionActual >= Len(cc[k].estaciones)
    IN  IF n = 0
        THEN [totalClientes |-> 0,
              tiempoEsperaPromedio |-> Racional(0, 1),
              varianzaTiempoEspera |-> Racional(0, 1),
              tiempoSistemaPromedio |-> Racional(0, 1),
              utilizacionEstaciones |->
                  [i \in 1..NUM_ESTACIONES |-> Racional(0, 1)]]
        ELSE
        LET sumaEspera ==
                SumaSeq([k \in 1..n |->
                           IF cuenta(k) THEN cc[k].tiempoEsperaTotal ELSE 0], n)
            sumaSistema ==
                SumaSeq([k \in 1..n |->
                           IF cuenta(k) THEN getTiempoTotal(cc[k]) ELSE 0], n)
            \* (w - sumaEspera/n)^2 = (n*w - sumaEspera)^2 / n^2
            sumaDiferenciasCuadradas ==
                SumaSeq([k \in 1..n |->
                           IF cuenta(k)
                           THEN (n * cc[k].tiempoEsperaTotal - sumaEspera)
                                * (n * cc[k].tiempoEsperaTotal - sumaEspera)
                           ELSE 0], n)
            tiempoSimulacion ==
                IF eng.tiempoFinalReal > 0 THEN eng.tiempoFinalReal
                ELSE eng.duracionSimulacion
        IN  [totalClientes |-> n,
             tiempoEsperaPromedio |-> Racional(sumaEspera, n),
             varianzaTiempoEspera |-> Racional(sumaDiferenciasCuadradas, n * n * (n - 1)),
             tiempoSistemaPromedio |-> Racional(sumaSistema, n),
             utilizacionEstaciones |->
                 [i \in 1..NUM_ESTACIONES |->
                    getUtilizacion(eng.estaciones[i], tiempoSimulacion)]]

\* SimulacionColas::getEstadisticas; averages are exact rationals
getEstadisticas(eng) ==
    LET n == Len(eng.clientesCompletados)
        cc == eng.clientesCompletados
        cuenta(k) == cc[k].indiceEstacionActual >= Len(cc[k].estaciones)
    IN  IF n = 0
        THEN [totalClientes |-> 0,
              tiempoEsperaPromedio |-> Racional(0, 1),
              varianzaTiempoEspera |-> Racional(0, 1),
              tiempoSistemaPromedio |-> Racional(0, 1),
              utilizacionEstaciones |->
                  [i \in 1..NUM_ESTACIONES |-> Racional(0, 1)]]
        ELSE
        LET sumaEspera ==
                SumaSeq([k \in 1..n |->
                           IF cuenta(k) THEN cc[k].tiempoEsperaTotal ELSE 0], n)
            sumaSistema ==
                SumaSeq([k \in 1..n |->
                           IF cuenta(k) THEN getTiempoTotal(cc[k]) ELSE 0], n)
            \* (w - sumaEspera/n)^2 = (n*w - sumaEspera)^2 / n^2
            sumaDiferenciasCuadradas ==
                SumaSeq([k \in 1..n |->
                           IF cuenta(k)
                           THEN (n * cc[k].tiempoEsperaTotal - sumaEspera)
                                * (n * cc[k].tiempoEsperaTotal - sumaEspera)
                           ELSE 0], n)
            tiempoSimulacion ==
                IF eng.tiempoFinalReal > 0 THEN eng.tiempoFinalReal
                ELSE eng.duracionSimulacion
        IN  [totalClientes |-> n,
             tiempoEsperaPromedio |-> Racional(sumaEspera, n),
             varianzaTiempoEspera |-> Racional(sumaDiferenciasCuadradas, n * n * n),
             tiempoSistemaPromedio |-> Racional(sumaSistema, n),
             utilizacionEstaciones |->
                 [i \in 1..NUM_ESTACIONES |->
                    getUtilizacion(eng.estaciones[i], tiempoSimulacion)]]

\* slip: the time the utilization was computed against is kept in the member
getEstadisticasEfecto_guardaTiempo(eng) ==
    [eng EXCEPT !.tiempoFinalReal =
        IF @ > 0 THEN @ ELSE eng.duracionSimulacion]

\* the engine getEstadisticas leaves: the method assigns to its local stats
\* only, to no member
getEstadisticasEfecto(eng) == eng

\* ------------------------------------------------------------------------
\* State: the engine instances, where each driver stands, and the server
\* configuration the drivers pass to inicializar.
\* ------------------------------------------------------------------------
\* ret is what the last call on an instance returned to its driver: the
\* Statistics of getEstadisticas, or Nada after a method that returns void;
\* corridas counts the calls of inicializar on an instance; semilla is the
\* seed the driver constructed the instance with.
VARIABLES sim, pc, config, ret, corridas, semilla

vars == <<sim, pc, config, ret, corridas, semilla>>

\* a record, as the Statistics are, so that the two can be compared
Nada == [nada |-> TRUE]

\* the configurations tried: one server everywhere, except k at station s
Configuraciones ==
    {LET n(j) == IF j = s THEN k ELSE 1
     IN  ConfiguracionServidores(n(CAJAS), n(REFRESCOS), n(FREIDORA),
                                 n(POSTRES), n(POLLO))
     : s \in 0..(NUM_ESTACIONES - 1), k \in 0..MaxServidores}

\* a driver that constructs one engine: SimulacionColas sim(dur, lam, sem)
Init ==
    /\ config \in Configuraciones
    /\ \E sem \in 0..MaxSemilla, dur \in 1..MaxDuracion, lam \in TasasLlegada :
          /\ sim = [i \in {1} |-> SimulacionColas(i, dur, lam, sem)]
          /\ semilla = [i \in {1} |-> sem]
    /\ pc = [i \in {1} |-> "construido"]
    /\ ret = [i \in {1} |-> Nada]
    /\ corridas = [i \in {1} |-> 0]

\* sim.inicializar(config)
Inicializar(i) ==
    /\ pc[i] = "construido"
    /\ sim' = [sim EXCEPT ![i] = inicializar(@, config)]
    /\ pc' = [pc EXCEPT ![i] = "inicializado"]
    /\ corridas' = [corridas EXCEPT ![i] = @ + 1]
    /\ ret' = [ret EXCEPT ![i] = Nada]
    /\ UNCHANGED <<config, semilla>>

EnBucle(i) ==
    /\ pc[i] \in {"inicializado", "ejecutando"}
    /\ sim[i].colaEventos # <<>>

\* slip: one generator for all the engines, every draw moves it for all
EjecutarLlegada_rngGlobal(i) ==
    /\ EnBucle(i)
    /\ ColaTop(sim[i].colaEventos).tipo = LLEGADA
    /\ ColaTop(sim[i].colaEventos).tiempo < sim[i].duracionSimulacion
    /\ sim' = Sea(ejecutarIteracion(sim[i]),
                  LAMBDA eng1 :
                     [j \in DOMAIN sim |->
                        IF j = i THEN eng1
                        ELSE [sim[j] EXCEPT !.rng = eng1.rng]])
    /\ pc' = [pc EXCEPT ![i] = "ejecutando"]
    /\ ret' = [ret EXCEPT ![i] = Nada]
    /\ UNCHANGED <<config, corridas, semilla>>

\* sim.ejecutar(): an iteration that dequeues a LLEGADA before the horizon
EjecutarLlegada(i) ==
    /\ EnBucle(i)
    /\ ColaTop(sim[i].colaEventos).tipo = LLEGADA
    /\ ColaTop(sim[i].colaEventos).tiempo < sim[i].duracionSimulacion
    /\ sim' = [sim EXCEPT ![i] = ejecutarIteracion(@)]
    /\ pc' = [pc EXCEPT ![i] = "ejecutando"]
    /\ ret' = [ret EXCEPT ![i] = Nada]
    /\ UNCHANGED <<config, corridas, semilla>>

\* sim.ejecutar(): an iteration that dequeues a LLEGADA at or past the horizon
EjecutarLlegadaTardia(i) ==
    /\ EnBucle(i)
    /\ ColaTop(sim[i].colaEventos).tipo = LLEGADA
    /\ ColaTop(sim[i].colaEventos).tiempo >= sim[i].duracionSimulacion
    /\ sim' = [sim EXCEPT ![i] = ejecutarIteracion(@)]
    /\ pc' = [pc EXCEPT ![i] = "ejecutando"]
    /\ ret' = [ret EXCEPT ![i] = Nada]
    /\ UNCHANGED <<config, corridas, semilla>>

\* sim.ejecutar(): an iteration that dequeues a FIN_SERVICIO
EjecutarFinServicio(i) ==
    /\ EnBucle(i)
    /\ ColaTop(sim[i].colaEventos).tipo = FIN_SERVICIO
    /\ sim' = [sim EXCEPT ![i] = ejecutarIteracion(@)]
    /\ pc' = [pc EXCEPT ![i] = "ejecutando"]
    /\ ret' = [ret EXCEPT ![i] = Nada]
    /\ UNCHANGED <<config, corridas, semilla>>

\* sim.ejecutar(): the event queue is empty, the loop ends
EjecutarRetorno(i) ==
    /\ pc[i] \in {"inicializado", "ejecutando"}
    /\ sim[i].colaEventos = <<>>
    /\ sim' = [sim EXCEPT ![i] = ejecutarRetorno(@)]
    /\ pc' = [pc EXCEPT ![i] = "terminado"]
    /\ ret' = [ret EXCEPT ![i] = Nada]
    /\ UNCHANGED <<config, corridas, semilla>>

Next ==
    \E i \in DOMAIN sim :
        \/ Inicializar(i)
        \/ EjecutarLlegada(i)
        \/ EjecutarLlegadaTardia(i)
        \/ EjecutarFinServicio(i)
        \/ EjecutarRetorno(i)

Spec == Init /\ [][Next]_vars

\* a driver that constructs two engines with the same arguments
InitPar ==
    /\ config \in Configuraciones
    /\ \E sem \in 0..MaxSemilla, dur \in 1..MaxDuracion, lam \in TasasLlegada :
          /\ sim = [i \in {1, 2} |-> SimulacionColas(i, dur, lam, sem)]
          /\ semilla = [i \in {1, 2} |-> sem]
    /\ pc = [i \in {1, 2} |-> "construido"]
    /\ ret = [i \in {1, 2} |-> Nada]
    /\ corridas = [i \in {1, 2} |-> 0]

SpecPar == InitPar /\ [][Next]_vars

\* ejecutar runs to its end: every step that can be taken is taken
FairSpec == Spec /\ WF_vars(Next)

\* sim.inicializar(config) on an engine that was initialized before
Reinicializar(i) ==
    /\ pc[i] \in {"inicializado", "terminado"}
    /\ corridas[i] < MaxCorridas
    /\ sim' = [sim EXCEPT ![i] = inicializar(@, config)]
    /\ pc' = [pc EXCEPT ![i] = "inicializado"]
    /\ corridas' = [corridas EXCEPT ![i] = @ + 1]
    /\ ret' = [ret EXCEPT ![i] = Nada]
    /\ UNCHANGED <<config, semilla>>

\* Estadisticas s = sim.getEstadisticas(), between two other calls
ObtenerEstadisticas(i) ==
    /\ pc[i] \in {"construido", "inicializado", "terminado"}
    /\ ret' = [ret EXCEPT ![i] = getEstadisticas(sim[i])]
    /\ sim' = [sim EXCEPT ![i] = getEstadisticasEfecto(@)]
    /\ UNCHANGED <<pc, config, corridas, semilla>>

\* a driver that may call every public method of its engine, in any order
NextUso ==
    \/ Next
    \/ \E i \in DOMAIN sim : Reinicializar(i)
    \/ \E i \in DOMAIN sim : ObtenerEstadisticas(i)

SpecUso == Init /\ [][NextUso]_vars

\* the driver of the replicas: engines constructed with consecutive seeds
InitReplicas ==
    /\ config \in Configuraciones
    /\ \E sem \in 0..MaxSemilla, dur \in 1..MaxDuracion, lam \in TasasLlegada :
          /\ sim = [i \in {1, 2} |-> SimulacionColas(i, dur, lam, sem + i)]
          /\ semilla = [i \in {1, 2} |-> sem + i]
    /\ pc = [i \in {1, 2} |-> "construido"]
    /\ ret = [i \in {1, 2} |-> Nada]
    /\ corridas = [i \in {1, 2} |-> 0]

SpecReplicas == InitReplicas /\ [][Next]_vars

\* ------------------------------------------------------------------------
\* Vocabulary of the properties
\* ------------------------------------------------------------------------
\* ids of the stations an engine has (none before inicializar)
IdsEstacion(eng) == {s \in 0..(NUM_ESTACIONES - 1) : s + 1 \in DOMAIN eng.estaciones}

\* ids of the customers an engine has created
IdsCliente(eng) == 0..(Len(eng.clientes) - 1)

ColaDe(eng, s) == eng.estaciones[s + 1].colaEspera

\* the pending FIN_SERVICIO events
FinesPendientes(eng) ==
    {j \in DOMAIN eng.colaEventos : eng.colaEventos[j].tipo = FIN_SERVICIO}

\* the customers in service at station s: a pending FIN_SERVICIO names them
EnServicioEn(eng, s) ==
    {eng.colaEventos[j].idCliente :
        j \in {x \in FinesPendientes(eng) : eng.colaEventos[x].idEstacion = s}}

\* the customers waiting at station s
EsperandoEn(eng, s) == {ColaDe(eng, s)[j] : j \in DOMAIN ColaDe(eng, s)}

\* the positions (station, index) of the waiting queues that hold customer k
LugaresEnCola(eng, k) ==
    {p \in UNION {{<<s, j>> : j \in DOMAIN ColaDe(eng, s)} : s \in IdsEstacion(eng)} :
        ColaDe(eng, p[1])[p[2]] = k}

\* the pending FIN_SERVICIO events that name customer k
LugaresEnServicio(eng, k) ==
    {j \in FinesPendientes(eng) : eng.colaEventos[j].idCliente = k}

\* the entries of the completed set that are customer k
LugaresCompletado(eng, k) ==
    {j \in DOMAIN eng.clientesCompletados : eng.clientesCompletados[j].id = k}

TodosConServidor ==
    /\ config.cajas >= 1
    /\ config.refrescos >= 1
    /\ config.freidora >= 1
    /\ config.postres >= 1
    /\ config.pollo >= 1

\* ------------------------------------------------------------------------
\* C1 - Conservation: in every state the completed customers are at most
\* the created ones, and every created customer is in exactly one place:
\* the completed set, the waiting queue of one station, or in service at
\* one station (one pending FIN_SERVICIO event names it).  Queues, events
\* and the completed set name created customers only.
\* ------------------------------------------------------------------------
Conservacion(eng) ==
    /\ Len(eng.clientesCompletados) <= Len(eng.clientes)
    /\ Len(eng.clientes) = eng.siguienteIdCliente
    /\ \A k \in IdsCliente(eng) :
          Cardinality(LugaresCompletado(eng, k))
          + Cardinality(LugaresEnCola(eng, k))
          + Cardinality(LugaresEnServicio(eng, k)) = 1
    /\ \A j \in FinesPendientes(eng) :
          eng.colaEventos[j].idCliente \in IdsCliente(eng)
    /\ \A s \in IdsEstacion(eng) : EsperandoEn(eng, s) \subseteq IdsCliente(eng)
    /\ \A j \in DOMAIN eng.clientesCompletados :
          eng.clientesCompletados[j].id \in IdsCliente(eng)

C1_Conservacion == \A i \in DOMAIN sim : Conservacion(sim[i])

\* a customer completed, another waiting and another in service, at once
C1_Testigo ==
    \E i \in DOMAIN sim :
      \E a, b, c \in IdsCliente(sim[i]) :
        /\ LugaresCompletado(sim[i], a) # {}
        /\ LugaresEnCola(sim[i], b) # {}
        /\ LugaresEnServicio(sim[i], c) # {}

\* ------------------------------------------------------------------------
\* C2 - Full drain: if every station has at least one server, when
\* ejecutar returns the event queue is empty, every waiting queue is
\* empty, every server is free and every created customer is in the
\* completed set, at the end of its route.
\* ------------------------------------------------------------------------
Drenado(eng) ==
    /\ eng.colaEventos = <<>>
    /\ \A s \in IdsEstacion(eng) :
          /\ ColaDe(eng, s) = <<>>
          /\ ServidoresOcupados(eng.estaciones[s + 1]) = 0
    /\ Len(eng.clientesCompletados) = Len(eng.clientes)
    /\ \A k \in IdsCliente(eng) :
          /\ LugaresCompletado(eng, k) # {}
          /\ eng.clientes[k + 1].indiceEstacionActual
                = Len(eng.clientes[k + 1].estaciones)

EmpateVisto(eng) ==
    \E j, k \in DOMAIN eng.clientesCompletados :
        /\ j # k
        /\ eng.clientesCompletados[j].tiempoLlegada
              + getTiempoTotal(eng.clientesCompletados[j])
           = eng.clientesCompletados[k].tiempoLlegada
              + getTiempoTotal(eng.clientesCompletados[k])

UtilizacionAcotada(eng) ==
    /\ \A s \in 1..NUM_ESTACIONES :
          LET u == getEstadisticas(eng).utilizacionEstaciones[s]
          IN  u.den > 0 /\ 0 <= u.num /\ u.num <= u.den
    /\ \A s \in IdsEstacion(eng) : eng.estaciones[s + 1].tiempoTotalOcupado >= 0

C4_UtilizacionAcotada ==
    \A i \in DOMAIN sim : pc[i] # "ejecutando" => UtilizacionAcotada(sim[i])

\* a run that ended after the horizon in which some station accumulated
\* more busy time than the nominal horizon holds
C4_Testigo ==
    \E i \in DOMAIN sim :
        /\ pc[i] = "terminado"
        /\ Len(sim[i].clientesCompletados) > 0
        /\ sim[i].tiempoFinalReal > sim[i].duracionSimulacion
        /\ \E s \in IdsEstacion(sim[i]) :
              sim[i].estaciones[s + 1].tiempoTotalOcupado
                 > sim[i].estaciones[s + 1].numServidores * sim[i].duracionSimulacion

\* ------------------------------------------------------------------------
\* Vocabulary of the steps
\* ------------------------------------------------------------------------
\* this step is an iteration of the loop of ejecutar of instance i
Desencola(i) ==
    /\ pc[i] \in {"inicializado", "ejecutando"}
    /\ sim[i].colaEventos # <<>>
    /\ sim'[i] # sim[i]
    /\ corridas'[i] = corridas[i]

\* the event that iteration dequeues
Desencolado(i) == ColaTop(sim[i].colaEventos)

\* the customers that begin service at station s between engine states a, b
Iniciados(a, b, s) == EnServicioEn(b, s) \ EnServicioEn(a, s)

\* the pairs <<customer, station>> enqueued by the iteration of instance i:
\* the new customer at CAJAS, or the customer of the finished service at the
\* next station of its route
Encolados(i) ==
    LET e == Desencolado(i) IN
    IF e.tipo = LLEGADA
    THEN {<<k, CAJAS>> : k \in IdsCliente(sim'[i]) \ IdsCliente(sim[i])}
    ELSE LET c == sim'[i].clientes[e.idCliente + 1]
         IN  IF c.indiceEstacionActual < Len(c.estaciones)
             THEN {<<e.idCliente, c.estaciones[c.indiceEstacionActual + 1]>>}
             ELSE {}

\* position of customer k in queue q
Pos(q, k) == CHOOSE j \in DOMAIN q : q[j] = k

\* wait and service a customer had accumulated in engine state a (0 if it
\* did not exist yet)
EsperaEn(a, k) == IF k \in IdsCliente(a) THEN a.clientes[k + 1].tiempoEsperaTotal ELSE 0
ServicioEn(a, k) == IF k \in IdsCliente(a) THEN a.clientes[k + 1].tiempoServicioTotal ELSE 0

\* ------------------------------------------------------------------------
\* C5 - Services are not truncated at the horizon: every dequeued
\* FIN_SERVICIO event, also one whose time is at or past the horizon, sets
\* the clock to its time, takes its customer out of service at its station,
\* advances the customer one step along its route, and either completes it
\* (its wait plus service then add up to the time it spent in the system)
\* or places it at the next station of its route.
\* ------------------------------------------------------------------------
FinProcesado(i) ==
    LET e == Desencolado(i)
        k == e.idCliente
        a == sim[i].clientes[k + 1]
        b == sim'[i].clientes[k + 1]
    IN  /\ sim'[i].tiempoActual = e.tiempo
        /\ b.indiceEstacionActual = a.indiceEstacionActual + 1
        /\ k \notin EnServicioEn(sim'[i], e.idEstacion)
        /\ IF b.indiceEstacionActual = Len(b.estaciones)
           THEN /\ LugaresCompletado(sim'[i], k) # {}
                /\ LugaresCompletado(sim[i], k) = {}
                /\ \A j \in LugaresCompletado(sim'[i], k) :
                      LET cc == sim'[i].clientesCompletados[j]
                      IN  cc.tiempoLlegada + getTiempoTotal(cc) = e.tiempo
           ELSE LET s == b.estaciones[b.indiceEstacionActual + 1]
                IN  k \in EsperandoEn(sim'[i], s) \cup EnServicioEn(sim'[i], s)

LlegadaTardiaSinEfecto(i) ==
    /\ sim'[i].clientes = sim[i].clientes
    /\ sim'[i].siguienteIdCliente = sim[i].siguienteIdCliente
    /\ sim'[i].estaciones = sim[i].estaciones
    /\ sim'[i].clientesCompletados = sim[i].clientesCompletados
    /\ sim'[i].rng = sim[i].rng
    /\ Len(sim'[i].colaEventos) = Len(sim[i].colaEventos) - 1

C6_CorteDeLlegadas ==
    /\ [][\A i \in DOMAIN sim :
            (/\ Desencola(i)
             /\ Desencolado(i).tipo = LLEGADA
             /\ Desencolado(i).tiempo >= sim[i].duracionSimulacion)
            => LlegadaTardiaSinEfecto(i)]_vars
    /\ [](\A i \in DOMAIN sim : \A k \in IdsCliente(sim[i]) :
            sim[i].clientes[k + 1].tiempoLlegada < sim[i].duracionSimulacion)

\* the first LLEGADA fell at or past the horizon and was dropped
C6_Testigo ==
    \E i \in DOMAIN sim :
        /\ pc[i] = "ejecutando"
        /\ sim[i].tiempoActual >= sim[i].duracionSimulacion
        /\ sim[i].clientes = <<>>
        /\ sim[i].colaEventos = <<>>

\* ------------------------------------------------------------------------
\* C7 - Termination: for every server configuration and horizon, ejecutar
\* eventually finds the event queue empty and returns; the customers
\* created plus the LLEGADA events pending never exceed the number of ticks
\* of the horizon.
\* ------------------------------------------------------------------------
LlegadasPendientes(eng) ==
    {j \in DOMAIN eng.colaEventos : eng.colaEventos[j].tipo = LLEGADA}

C7_Terminacion ==
    /\ <>(\A i \in DOMAIN sim : pc[i] = "terminado")
    /\ [](\A i \in DOMAIN sim :
            Len(sim[i].clientes) + Cardinality(LlegadasPendientes(sim[i]))
                <= sim[i].duracionSimulacion)

\* a run that returned after serving customers past the horizon
C7_Testigo ==
    \E i \in DOMAIN sim :
        /\ pc[i] = "terminado"
        /\ Len(sim[i].clientes) >= 2
        /\ sim[i].tiempoFinalReal > sim[i].duracionSimulacion

\* ------------------------------------------------------------------------
\* C8 - Strict FIFO per station: the customers that begin service at a
\* station in a step are taken from the front of its waiting queue; a
\* customer that was waiting is never left behind by one enqueued after it.
\* ------------------------------------------------------------------------
FIFOEn(a, b, s) ==
    LET q == ColaDe(a, s)
        nuevos == Iniciados(a, b, s)
    IN  /\ \A x \in nuevos : \A y \in EsperandoEn(b, s) :
              y \in EsperandoEn(a, s)
                 => (x \in EsperandoEn(a, s) /\ Pos(q, x) < Pos(q, y))
        /\ \E m \in 0..Len(q) :
              /\ \A j \in 1..m : q[j] \in nuevos
              /\ Len(ColaDe(b, s)) >= Len(q) - m
              /\ \A j \in (m + 1)..Len(q) : ColaDe(b, s)[j - m] = q[j]

C8_FIFO ==
    [][\A i \in DOMAIN sim :
         \A s \in IdsEstacion(sim[i]) \cap IdsEstacion(sim'[i]) :
            FIFOEn(sim[i], sim'[i], s)]_vars

\* at a one-server station a customer is in service and another waits; the
\* one in service queued first, and the other queued before that service
\* began: both were waiting when the server picked
C8_Testigo ==
    \E i \in DOMAIN sim : \E s \in IdsEstacion(sim[i]) :
        /\ sim[i].estaciones[s + 1].numServidores = 1
        /\ \E x \in EnServicioEn(sim[i], s) : \E y \in EsperandoEn(sim[i], s) :
              /\ sim[i].clientes[x + 1].tiempoEntradaCola
                    < sim[i].clientes[y + 1].tiempoEntradaCola
              /\ sim[i].clientes[y + 1].tiempoEntradaCola
                    < sim[i].estaciones[s + 1].tiempoUltimoCambio

\* ------------------------------------------------------------------------
\* C9 - Per-station wait accounting: when a customer begins service at a
\* station, the wait added to it is the start time minus the time it was
\* enqueued at that station (its arrival time at the first station, the end
\* of its previous service at a later one); its total wait is then the time
\* since its arrival minus its finished services, and no other step changes
\* a customer's total wait.
\* ------------------------------------------------------------------------
EsperaContada(a, b, s, k) ==
    LET c == b.clientes[k + 1]
        entrada == IF k \in EsperandoEn(a, s)
                   THEN a.clientes[k + 1].tiempoEntradaCola
                   ELSE b.tiempoActual
    IN  /\ c.tiempoEsperaTotal - EsperaEn(a, k) = b.tiempoActual - entrada
        /\ entrada = IF c.indiceEstacionActual = 0
                     THEN c.tiempoLlegada
                     ELSE c.tiempoLlegada + EsperaEn(a, k) + ServicioEn(a, k)
        /\ c.tiempoEsperaTotal
              = b.tiempoActual - c.tiempoLlegada - ServicioEn(a, k)

C9_EsperaPorEstacion ==
    [][\A i \in DOMAIN sim :
         /\ \A s \in IdsEstacion(sim[i]) \cap IdsEstacion(sim'[i]) :
               \A k \in Iniciados(sim[i], sim'[i], s) :
                  EsperaContada(sim[i], sim'[i], s, k)
         /\ \A k \in IdsCliente(sim[i]) \cap IdsCliente(sim'[i]) :
               (\A s \in IdsEstacion(sim'[i]) : k \notin Iniciados(sim[i], sim'[i], s))
                  => sim'[i].clientes[k + 1].tiempoEsperaTotal
                        = sim[i].clientes[k + 1].tiempoEsperaTotal]_vars

\* a customer is in service at a later station of its route, at a one-server
\* station, and that service began after the customer queued there
C9_Testigo ==
    \E i \in DOMAIN sim : \E s \in IdsEstacion(sim[i]) :
        /\ sim[i].estaciones[s + 1].numServidores = 1
        /\ \E k \in EnServicioEn(sim[i], s) :
              /\ sim[i].clientes[k + 1].indiceEstacionActual >= 1
              /\ sim[i].clientes[k + 1].tiempoEntradaCola
                    < sim[i].estaciones[s + 1].tiempoUltimoCambio
              /\ sim[i].clientes[k + 1].tiempoEsperaTotal
                    > sim[i].estaciones[s + 1].tiempoUltimoCambio
                        - sim[i].clientes[k + 1].tiempoEntradaCola

\* ------------------------------------------------------------------------
\* C10 - Zero wait when a server is free: a customer enqueued at a station
\* whose queue is empty and that has a free server is in service there when
\* the handler ends, with no wait added; the first customer of a run, while
\* at the first station, is in service there with total wait 0.
\* ------------------------------------------------------------------------
LibreYSinCola(eng, s) ==
    /\ ColaDe(eng, s) = <<>>
    /\ ServidoresOcupados(eng.estaciones[s + 1]) < eng.estaciones[s + 1].numServidores

C10_EsperaCero ==
    /\ [][\A i \in DOMAIN sim :
            Desencola(i) =>
              \A par \in Encolados(i) :
                 LibreYSinCola(sim[i], par[2]) =>
                    /\ par[1] \in EnServicioEn(sim'[i], par[2])
                    /\ sim'[i].clientes[par[1] + 1].tiempoEsperaTotal
                          = EsperaEn(sim[i], par[1])]_vars
    /\ [](\A i \in DOMAIN sim :
            (/\ Len(sim[i].clientes) >= 1
             /\ config.cajas >= 1
             /\ sim[i].clientes[1].indiceEstacionActual = 0)
            => /\ sim[i].clientes[1].tiempoEsperaTotal = 0
               /\ 0 \in EnServicioEn(sim[i], CAJAS))

\* a customer that had already waited elsewhere moved to a free station and
\* is in service there, the service having begun when it queued
C10_Testigo ==
    \E i \in DOMAIN sim : \E s \in IdsEstacion(sim[i]) :
        \E k \in EnServicioEn(sim[i], s) :
            /\ sim[i].clientes[k + 1].indiceEstacionActual >= 1
            /\ sim[i].clientes[k + 1].tiempoEsperaTotal > 0
            /\ sim[i].clientes[k + 1].tiempoEntradaCola = sim[i].tiempoActual
            /\ sim[i].estaciones[s + 1].tiempoUltimoCambio = sim[i].tiempoActual

\* ------------------------------------------------------------------------
\* C11 - Utilization denominator: the clock is the time of the last event
\* dequeued, ejecutar stores it as tiempoFinalReal when it returns, and
\* after a run in which a customer completed the utilization reported for
\* a station with servers is its busy time over (servers * that time), also
\* when that time is past the horizon; a station without servers reports 0.
\* ------------------------------------------------------------------------
UtilizacionSobreTiempoReal(eng) ==
    \A s \in IdsEstacion(eng) :
        LET est == eng.estaciones[s + 1]
            u == getEstadisticas(eng).utilizacionEstaciones[s + 1]
        IN  IF est.numServidores >= 1
            THEN u = Racional(est.tiempoTotalOcupado,
                              est.numServidores * eng.tiempoActual)
            ELSE u = Racional(0, 1)

PrimeroCajas(eng) ==
    /\ \A k \in IdsCliente(eng) :
          LET c == eng.clientes[k + 1] IN
          /\ Len(c.estaciones) >= 1
          /\ c.estaciones[1] = CAJAS
          /\ c.indiceEstacionActual = 0 =>
                /\ k \in EsperandoEn(eng, CAJAS) \cup EnServicioEn(eng, CAJAS)
                /\ \A j \in LugaresEnServicio(eng, k) :
                      eng.colaEventos[j].idEstacion = CAJAS
    /\ \A j \in DOMAIN eng.clientesCompletados :
          /\ Len(eng.clientesCompletados[j].estaciones) >= 1
          /\ eng.clientesCompletados[j].estaciones[1] = CAJAS

C12_PrimeroCajas == \A i \in DOMAIN sim : PrimeroCajas(sim[i])

\* a customer completed a route of several stations while another is
\* still waiting at CAJAS for its first service
C12_Testigo ==
    \E i \in DOMAIN sim :
        /\ \E j \in DOMAIN sim[i].clientesCompletados :
              Len(sim[i].clientesCompletados[j].estaciones) >= 2
        /\ \E k \in EsperandoEn(sim[i], CAJAS) :
              sim[i].clientes[k + 1].indiceEstacionActual = 0

\* ------------------------------------------------------------------------
\* C13 - Monotonic route progress: a customer is created with
\* indiceEstacionActual 0; a step that dequeues a FIN_SERVICIO event of a
\* customer adds exactly 1 to its index, every other step of a run leaves
\* the index as it was; the index never exceeds the length of the route.
\* ------------------------------------------------------------------------
AvanceDe(i, k) ==
    IF /\ Desencola(i)
       /\ Desencolado(i).tipo = FIN_SERVICIO
       /\ Desencolado(i).idCliente = k
    THEN 1 ELSE 0

C13_ProgresoMonotono ==
    /\ [][\A i \in DOMAIN sim :
            corridas'[i] = corridas[i] =>
              /\ \A k \in IdsCliente(sim'[i]) \ IdsCliente(sim[i]) :
                    sim'[i].clientes[k + 1].indiceEstacionActual = 0
              /\ \A k \in IdsCliente(sim[i]) :
                    /\ k \in IdsCliente(sim'[i])
                    /\ sim'[i].clientes[k + 1].indiceEstacionActual
                          = sim[i].clientes[k + 1].indiceEstacionActual
                              + AvanceDe(i, k)]_vars
    /\ [](\A i \in DOMAIN sim : \A k \in IdsCliente(sim[i]) :
            /\ sim[i].clientes[k + 1].indiceEstacionActual >= 0
            /\ sim[i].clientes[k + 1].indiceEstacionActual
                  <= Len(sim[i].clientes[k + 1].estaciones))

\* a customer at the end of a route of three or more stations while
\* another customer is part of the way along its own
C13_Testigo ==
    \E i \in DOMAIN sim : \E a, b \in IdsCliente(sim[i]) :
        /\ Len(sim[i].clientes[a + 1].estaciones) >= 3
        /\ sim[i].clientes[a + 1].indiceEstacionActual
              = Len(sim[i].clientes[a + 1].estaciones)
        /\ sim[i].clientes[b + 1].indiceEstacionActual >= 1
        /\ sim[i].clientes[b + 1].indiceEstacionActual
              < Len(sim[i].clientes[b + 1].estaciones)

\* ------------------------------------------------------------------------
\* C14 - Configuration errors fail fast: an engine whose configuration has
\* a station with zero or fewer servers, or whose arrival rate is not
\* positive, does not get past inicializar: it is never initialized, it
\* dequeues no event and its run never returns.
\* ------------------------------------------------------------------------
ConfiguracionInvalida(eng) ==
    \/ config.cajas <= 0
    \/ config.refrescos <= 0
    \/ config.freidora <= 0
    \/ config.postres <= 0
    \/ config.pollo <= 0
    \/ eng.tasaLlegada <= 0

C14_FalloInmediato ==
    \A i \in DOMAIN sim :
        ConfiguracionInvalida(sim[i]) => pc[i] = "construido"

\* ------------------------------------------------------------------------
\* C15 - Degenerate runs yield zeros: whenever the completed set is empty
\* (before inicializar, before ejecutar, after a run that completed nobody,
\* after a new inicializar), getEstadisticas returns totalClientes 0, mean
\* wait 0, variance 0, mean system time 0 and NUM_ESTACIONES utilizations
\* of 0, every one of them a fraction with a denominator that is not 0.
\* ------------------------------------------------------------------------
EsCero(q) == q.num = 0 /\ q.den # 0

EstadisticasCero(st) ==
    /\ st.totalClientes = 0
    /\ EsCero(st.tiempoEsperaPromedio)
    /\ EsCero(st.varianzaTiempoEspera)
    /\ EsCero(st.tiempoSistemaPromedio)
    /\ DOMAIN st.utilizacionEstaciones = 1..NUM_ESTACIONES
    /\ \A s \in 1..NUM_ESTACIONES : EsCero(st.utilizacionEstaciones[s])

C15_CorridaDegenerada ==
    \A i \in DOMAIN sim :
        sim[i].clientesCompletados = <<>> =>
           /\ EstadisticasCero(getEstadisticas(sim[i]))
           /\ ret[i] # Nada => EstadisticasCero(ret[i])

\* getEstadisticas was called after a run in which customers arrived and a
\* station was busy, but nobody completed
C15_Testigo ==
    \E i \in DOMAIN sim :
        /\ pc[i] = "terminado"
        /\ ret[i] # Nada
        /\ sim[i].clientes # <<>>
        /\ sim[i].clientesCompletados = <<>>
        /\ \E s \in IdsEstacion(sim[i]) :
              sim[i].estaciones[s + 1].tiempoTotalOcupado > 0

\* ------------------------------------------------------------------------
\* C16 - getEstadisticas is safe in every engine state: whenever the
\* completed set is not empty the five stations it reads exist (with an
\* empty completed set it reads none), and the totalClientes it returns is
\* the number of customers of the table that are at the end of their route.
\* ------------------------------------------------------------------------
CompletadosHastaAhora(eng) ==
    Cardinality({k \in IdsCliente(eng) :
                    eng.clientes[k + 1].indiceEstacionActual
                       >= Len(eng.clientes[k + 1].estaciones)})

C16_EstadisticasSeguras ==
    \A i \in DOMAIN sim :
        /\ sim[i].clientesCompletados # <<>> =>
               \A s \in 0..(NUM_ESTACIONES - 1) : s \in IdsEstacion(sim[i])
        /\ getEstadisticas(sim[i]).totalClientes = CompletadosHastaAhora(sim[i])
        /\ ret[i] # Nada => ret[i].totalClientes = CompletadosHastaAhora(sim[i])

\* getEstadisticas was called after the second run of an engine, in which
\* some customers completed and some did not
C16_Testigo ==
    \E i \in DOMAIN sim :
        /\ pc[i] = "terminado"
        /\ corridas[i] = 2
        /\ ret[i] # Nada
        /\ ret[i].totalClientes >= 1
        /\ ret[i].totalClientes < Len(sim[i].clientes)

ServidoresConfigurados(s) ==
    CASE s = CAJAS     -> config.cajas
      [] s = REFRESCOS -> config.refrescos
      [] s = FREIDORA  -> config.freidora
      [] s = POSTRES   -> config.postres
      [] s = POLLO     -> config.pollo

RecienInicializado(eng) ==
    /\ eng.tiempoActual = 0
    /\ eng.siguienteIdCliente = 0
    /\ eng.clientes = <<>>
    /\ eng.clientesCompletados = <<>>
    /\ Len(eng.estaciones) = NUM_ESTACIONES
    /\ \A s \in 0..(NUM_ESTACIONES - 1) :
          LET est == eng.estaciones[s + 1] IN
          /\ est.id = s
          /\ est.numServidores = ServidoresConfigurados(s)
          /\ DOMAIN est.servidorOcupado = 1..ServidoresConfigurados(s)
          /\ ServidoresOcupados(est) = 0
          /\ est.colaEspera = <<>>
          /\ est.tiempoTotalOcupado = 0
          /\ est.tiempoUltimoCambio = 0
          /\ est.totalAtendidos = 0
    /\ Len(eng.colaEventos) = 1
    /\ eng.colaEventos[1].tipo = LLEGADA
    /\ eng.colaEventos[1].idCliente = -1
    /\ eng.colaEventos[1].idEstacion = -1
    /\ EstadisticasCero(getEstadisticas(eng))

EnAlgunaRuta(eng, s) ==
    \E k \in IdsCliente(eng) :
        \E j \in DOMAIN eng.clientes[k + 1].estaciones :
            eng.clientes[k + 1].estaciones[j] = s

EstacionIntacta(eng, s) ==
    /\ \A j \in FinesPendientes(eng) : eng.colaEventos[j].idEstacion # s
    /\ ServidoresOcupados(eng.estaciones[s + 1]) = 0
    /\ ColaDe(eng, s) = <<>>
    /\ eng.estaciones[s + 1].totalAtendidos = 0
    /\ eng.estaciones[s + 1].tiempoTotalOcupado = 0
    /\ EsCero(getEstadisticas(eng).utilizacionEstaciones[s + 1])

C19_EstacionNoVisitada ==
    \A i \in DOMAIN sim : \A s \in IdsEstacion(sim[i]) \ {CAJAS} :
        ~EnAlgunaRuta(sim[i], s) => EstacionIntacta(sim[i], s)

\* a run returned with several customers completed at other stations and
\* an optional station, with a server, that was in nobody's route
C19_Testigo ==
    \E i \in DOMAIN sim : \E s \in IdsEstacion(sim[i]) \ {CAJAS} :
        /\ pc[i] = "terminado"
        /\ Len(sim[i].clientesCompletados) >= 2
        /\ \E t \in IdsEstacion(sim[i]) \ {CAJAS} :
              sim[i].estaciones[t + 1].tiempoTotalOcupado > 0
        /\ sim[i].estaciones[s + 1].numServidores >= 1
        /\ ~EnAlgunaRuta(sim[i], s)

\* ------------------------------------------------------------------------
\* C20 - Instance isolation: with two engines constructed with different
\* seeds and their steps interleaved in any order, a step of one engine
\* leaves the other engine as it was, and when the run of an engine has
\* returned its Statistics are those of an engine constructed with the same
\* arguments, initialized and run from beginning to end with no other
\* engine stepping.
\* ------------------------------------------------------------------------
EstadisticasSolo(i) ==
    getEstadisticas(
        ejecutar(inicializar(SimulacionColas(i, sim[i].duracionSimulacion,
                                             sim[i].tasaLlegada, semilla[i]),
                             config)))

Completo(eng, k) ==
    eng.clientes[k + 1].indiceEstacionActual >= Len(eng.clientes[k + 1].estaciones)

\* sum of F(customer) over the customers of the table that completed
SumaCompletos(eng, F(_)) ==
    SumaSeq([j \in 1..Len(eng.clientes) |->
               IF Completo(eng, j - 1) THEN F(eng.clientes[j]) ELSE 0],
            Len(eng.clientes))

\* the fraction q is a / b
EsCociente(q, a, b) == q.den # 0 /\ q.num * b = a * q.den

FormulasDeAgregacion(eng) ==
    LET st == getEstadisticas(eng)
        n == CompletadosHastaAhora(eng)
        S == SumaCompletos(eng, LAMBDA c : c.tiempoEsperaTotal)
        Q == SumaCompletos(eng, LAMBDA c : c.tiempoEsperaTotal * c.tiempoEsperaTotal)
        T == SumaCompletos(eng, LAMBDA c : c.tiempoEsperaTotal + c.tiempoServicioTotal)
    IN  /\ st.totalClientes = n
        /\ EsCociente(st.tiempoEsperaPromedio, S, n)
        /\ EsCociente(st.tiempoSistemaPromedio, T, n)
        /\ EsCociente(st.varianzaTiempoEspera, n * Q - S * S, n * n)

CambiaOcupacion(a, b, s) ==
    \/ Iniciados(a, b, s) # {}
    \/ b.estaciones[s + 1].totalAtendidos # a.estaciones[s + 1].totalAtendidos

AcumulaOcupacionPrevia(a, b, s) ==
    LET antes == a.estaciones[s + 1]
        despues == b.estaciones[s + 1]
    IN  /\ despues.tiempoTotalOcupado
              = antes.tiempoTotalOcupado
                + ServidoresOcupados(antes)
                    * (b.tiempoActual - antes.tiempoUltimoCambio)
        /\ despues.tiempoUltimoCambio = b.tiempoActual

C22_AcumulaAntesDelCambio ==
    [][\A i \in DOMAIN sim :
         Desencola(i) =>
            \A s \in IdsEstacion(sim[i]) :
               CambiaOcupacion(sim[i], sim'[i], s)
                  => AcumulaOcupacionPrevia(sim[i], sim'[i], s)]_vars

\* ------------------------------------------------------------------------
\* C23 - Busy time equals service time delivered: when a run in which every
\* station has a server has returned, the busy time of each station is the
\* sum of the durations of the services that were performed at it.
\* ------------------------------------------------------------------------
\* the durations of the services that begin at station s between engine
\* states a and b, added up: each has a FIN_SERVICIO event in b
DuracionIniciada(a, b, s) ==
    SumaSeq([j \in 1..Len(b.colaEventos) |->
               IF /\ b.colaEventos[j].tipo = FIN_SERVICIO
                  /\ b.colaEventos[j].idEstacion = s
                  /\ b.colaEventos[j].idCliente \in Iniciados(a, b, s)
               THEN b.colaEventos[j].tiempo - b.tiempoActual
               ELSE 0],
            Len(b.colaEventos))

\* the service delivered per station by the run that continues from eng,
\* added to acum
RECURSIVE ServicioEntregado(_, _)
ServicioEntregado(eng, acum) ==
    IF eng.colaEventos = <<>> THEN acum
    ELSE Sea(ejecutarIteracion(eng),
             LAMBDA eng1 :
                ServicioEntregado(
                    eng1,
                    [s \in 1..NUM_ESTACIONES |->
                       acum[s] + DuracionIniciada(eng, eng1, s - 1)]))

\* the service delivered per station by the whole run of instance i
ServicioDeLaCorrida(i) ==
    ServicioEntregado(
        inicializar(SimulacionColas(i, sim[i].duracionSimulacion,
                                    sim[i].tasaLlegada, semilla[i]),
                    config),
        [s \in 1..NUM_ESTACIONES |-> 0])

C23_OcupadoIgualServicio ==
    \A i \in DOMAIN sim :
        (pc[i] = "terminado" /\ TodosConServidor) =>
           \A s \in IdsEstacion(sim[i]) :
              sim[i].estaciones[s + 1].tiempoTotalOcupado
                 = ServicioDeLaCorrida(i)[s + 1]

\* ------------------------------------------------------------------------
\* C24 - Work conservation: in every state between two event handlers no
\* station has both a customer waiting and a free server.
\* ------------------------------------------------------------------------
C24_ConservacionDeTrabajo ==
    \A i \in DOMAIN sim : \A s \in IdsEstacion(sim[i]) :
        ColaDe(sim[i], s) # <<>> => ~hayServidorDisponible(sim[i].estaciones[s + 1])

\* a station with two servers, both busy, has served a customer and has
\* another one waiting
C24_Testigo ==
    \E i \in DOMAIN sim : \E s \in IdsEstacion(sim[i]) :
        /\ sim[i].estaciones[s + 1].numServidores = 2
        /\ ServidoresOcupados(sim[i].estaciones[s + 1]) = 2
        /\ sim[i].estaciones[s + 1].totalAtendidos >= 1
        /\ ColaDe(sim[i], s) # <<>>

\* ------------------------------------------------------------------------
\* C25 - Server occupancy: in every state and for every station the number
\* of servers marked busy is between 0 and numServidores, and it is the
\* number of pending FIN_SERVICIO events that name the station.
\* ------------------------------------------------------------------------
FinesPendientesEn(eng, s) ==
    {j \in FinesPendientes(eng) : eng.colaEventos[j].idEstacion = s}

C25_Ocupacion ==
    \A i \in DOMAIN sim : \A s \in IdsEstacion(sim[i]) :
        LET est == sim[i].estaciones[s + 1] IN
        /\ ServidoresOcupados(est) >= 0
        /\ ServidoresOcupados(est) <= est.numServidores
        /\ Len(est.servidorOcupado) = est.numServidores
        /\ ServidoresOcupados(est) = Cardinality(FinesPendientesEn(sim[i], s))

\* a station has two servers busy and another station one, after services
\* have ended at the first
C25_Testigo ==
    \E i \in DOMAIN sim : \E s, t \in IdsEstacion(sim[i]) :
        /\ s # t
        /\ ServidoresOcupados(sim[i].estaciones[s + 1]) = 2
        /\ sim[i].estaciones[s + 1].totalAtendidos >= 1
        /\ ServidoresOcupados(sim[i].estaciones[t + 1]) = 1

\* ------------------------------------------------------------------------
\* Vocabulary of the event queue
\* ------------------------------------------------------------------------
\* how many times event e is in heap h
Cuenta(h, e) == Cardinality({j \in DOMAIN h : h[j] = e})

\* the events of h
EventosDe(h) == {h[j] : j \in DOMAIN h}

\* how many times e stays pending when the top of h is dequeued
Restantes(h, e) == IF e = ColaTop(h) THEN Cuenta(h, e) - 1 ELSE Cuenta(h, e)

\* the events pushed by the iteration that leads from engine state a to b
Empujados(a, b) ==
    {e \in EventosDe(b.colaEventos) :
        Cuenta(b.colaEventos, e) > Restantes(a.colaEventos, e)}

\* ------------------------------------------------------------------------
\* C26 - Events are never scheduled in the past and the clock never goes
\* backwards: an iteration of ejecutar sets the clock to a value that is
\* not less than the one it had, every event it pushes has a time that is
\* not less than that clock, the event inicializar pushes is not before
\* its clock of 0, and no pending event is ever before the clock.
\* ------------------------------------------------------------------------
C26_SinPasado ==
    /\ [][\A i \in DOMAIN sim :
            /\ Desencola(i) =>
                  /\ sim'[i].tiempoActual >= sim[i].tiempoActual
                  /\ \A e \in Empujados(sim[i], sim'[i]) :
                        e.tiempo >= sim'[i].tiempoActual
            /\ corridas'[i] # corridas[i] =>
                  \A e \in EventosDe(sim'[i].colaEventos) :
                     e.tiempo >= sim'[i].tiempoActual]_vars
    /\ [](\A i \in DOMAIN sim : \A e \in EventosDe(sim[i].colaEventos) :
            e.tiempo >= sim[i].tiempoActual)

\* past the horizon, with the clock advanced several times, a pending
\* event has exactly the time of the clock and another a later one
C26_Testigo ==
    \E i \in DOMAIN sim :
        /\ sim[i].tiempoActual > sim[i].duracionSimulacion
        /\ Len(sim[i].clientesCompletados) >= 1
        /\ \E e, f \in EventosDe(sim[i].colaEventos) :
              /\ e.tiempo = sim[i].tiempoActual
              /\ f.tiempo > sim[i].tiempoActual

\* ------------------------------------------------------------------------
\* C27 - Time-ordered dequeue: the event at the top of the event queue has
\* the least time of the pending events, and an iteration of ejecutar
\* takes that event: the clock becomes its time, it leaves the queue and
\* every other pending event stays; no other step of a run takes an event
\* out; and the run reaches its return with the event queue empty, so that
\* every event that was pushed has been dequeued, once.
\* ------------------------------------------------------------------------
CimaMinima(eng) ==
    \A j \in DOMAIN eng.colaEventos :
        ColaTop(eng.colaEventos).tiempo <= eng.colaEventos[j].tiempo

SaleLaCima(a, b) ==
    /\ b.tiempoActual = ColaTop(a.colaEventos).tiempo
    /\ Cuenta(b.colaEventos, ColaTop(a.colaEventos))
          = Restantes(a.colaEventos, ColaTop(a.colaEventos))
    /\ \A e \in EventosDe(a.colaEventos) :
          Cuenta(b.colaEventos, e) >= Restantes(a.colaEventos, e)

C27_OrdenTemporal ==
    /\ [](\A i \in DOMAIN sim : CimaMinima(sim[i]))
    /\ [][\A i \in DOMAIN sim :
            /\ Desencola(i) => SaleLaCima(sim[i], sim'[i])
            /\ (corridas'[i] = corridas[i] /\ ~Desencola(i))
                  => sim'[i].colaEventos = sim[i].colaEventos]_vars
    /\ <>[](\A i \in DOMAIN sim :
              pc[i] = "terminado" /\ sim[i].colaEventos = <<>>)

\* three or more events are pending, in an order in the vector that is not
\* the order of their times, after events have been dequeued
C27_Testigo ==
    \E i \in DOMAIN sim :
        /\ Len(sim[i].colaEventos) >= 3
        /\ sim[i].colaEventos[2].tiempo > sim[i].colaEventos[3].tiempo
        /\ sim[i].colaEventos[1].tiempo < sim[i].colaEventos[3].tiempo
        /\ Len(sim[i].clientesCompletados) >= 1

\* ------------------------------------------------------------------------
\* C28 - Event payload validity: every pending LLEGADA event carries
\* idCliente = -1 and idEstacion = -1; every pending FIN_SERVICIO event
\* carries the id of a customer of the customer table and a station id in
\* 0..4 that is the station of that customer's route at its
\* indiceEstacionActual, which is less than the length of the route.
\* ------------------------------------------------------------------------
CargaValida(eng, e) ==
    IF e.tipo = LLEGADA
    THEN e.idCliente = -1 /\ e.idEstacion = -1
    ELSE /\ e.tipo = FIN_SERVICIO
         /\ e.idCliente \in IdsCliente(eng)
         /\ e.idEstacion \in 0..(NUM_ESTACIONES - 1)
         /\ eng.clientes[e.idCliente + 1].indiceEstacionActual
               < Len(eng.clientes[e.idCliente + 1].estaciones)
         /\ e.idEstacion =
               eng.clientes[e.idCliente + 1].estaciones[
                   eng.clientes[e.idCliente + 1].indiceEstacionActual + 1]

C28_CargaDeEventos ==
    \A i \in DOMAIN sim :
        \A e \in EventosDe(sim[i].colaEventos) : CargaValida(sim[i], e)

\* a LLEGADA is pending together with the FIN_SERVICIO of a customer that
\* is past the first station of its route, at a station that is not CAJAS
C28_Testigo ==
    \E i \in DOMAIN sim :
        /\ LlegadasPendientes(sim[i]) # {}
        /\ \E j \in FinesPendientes(sim[i]) :
              /\ sim[i].colaEventos[j].idEstacion # CAJAS
              /\ sim[i].colaEventos[j].idCliente >= 1
              /\ sim[i].clientes[sim[i].colaEventos[j].idCliente + 1]
                    .indiceEstacionActual >= 1

\* ------------------------------------------------------------------------
\* C29 - Completion exactly once: a step of a run appends to
\* clientesCompletados exactly the customers whose indiceEstacionActual
\* becomes the length of their route in that step and leaves the earlier
\* entries as they are; each customer id is in clientesCompletados at most
\* once, and there exactly when its index is the length of its route; a
\* completed customer waits in no station queue and has no service pending.
\* ------------------------------------------------------------------------
RutaTerminada(eng, k) ==
    eng.clientes[k + 1].indiceEstacionActual = Len(eng.clientes[k + 1].estaciones)

\* the customers whose route ends between engine states a and b
TerminanRuta(a, b) ==
    {k \in IdsCliente(b) :
        /\ RutaTerminada(b, k)
        /\ k \in IdsCliente(a) => ~RutaTerminada(a, k)}

CompletaLosQueTerminan(a, b) ==
    /\ Len(b.clientesCompletados)
          = Len(a.clientesCompletados) + Cardinality(TerminanRuta(a, b))
    /\ SubSeq(b.clientesCompletados, 1, Len(a.clientesCompletados))
          = a.clientesCompletados
    /\ \A j \in (Len(a.clientesCompletados) + 1)..Len(b.clientesCompletados) :
          b.clientesCompletados[j].id \in TerminanRuta(a, b)

CompletadoUnaVez(eng) ==
    \A k \in IdsCliente(eng) :
        /\ Cardinality(LugaresCompletado(eng, k)) <= 1
        /\ LugaresCompletado(eng, k) # {} <=> RutaTerminada(eng, k)
        /\ RutaTerminada(eng, k) =>
              /\ LugaresEnCola(eng, k) = {}
              /\ LugaresEnServicio(eng, k) = {}

C29_CompletadoUnaVez ==
    /\ [][\A i \in DOMAIN sim :
            corridas'[i] = corridas[i] => CompletaLosQueTerminan(sim[i], sim'[i])]_vars
    /\ [](\A i \in DOMAIN sim :
            /\ CompletadoUnaVez(sim[i])
            /\ \A j \in DOMAIN sim[i].clientesCompletados :
                  sim[i].clientesCompletados[j].id \in IdsCliente(sim[i]))

\* two customers have completed, one of them after more than one station,
\* while another customer is still waiting or in service
C29_Testigo ==
    \E i \in DOMAIN sim :
        /\ Len(sim[i].clientesCompletados) >= 2
        /\ \E j \in DOMAIN sim[i].clientesCompletados :
              Len(sim[i].clientesCompletados[j].estaciones) >= 2
        /\ \E k \in IdsCliente(sim[i]) :
              /\ ~RutaTerminada(sim[i], k)
              /\ sim[i].clientes[k + 1].indiceEstacionActual >= 1

\* ------------------------------------------------------------------------
\* C30 - Next-arrival scheduling: an iteration that processes an arrival
\* pushes the next LLEGADA, at the clock plus the gap it draws, when that
\* time is strictly less than the horizon, and no LLEGADA otherwise; no
\* other iteration pushes a LLEGADA; hence a pending LLEGADA other than
\* the one inicializar pushed has a time below the horizon, and at most
\* one LLEGADA is pending at any moment.
\* ------------------------------------------------------------------------
LlegadasEmpujadas(a, b) == {e \in Empujados(a, b) : e.tipo = LLEGADA}

\* the arrival that procesarLlegada schedules, from the gap it drew last
SiguienteLlegada(b) ==
    b.tiempoActual + tiempoEntreLlegadas(b.rng, b.tasaLlegada)

ProgramaSiguiente(i) ==
    IF Desencolado(i).tipo = LLEGADA
       /\ Desencolado(i).tiempo < sim[i].duracionSimulacion
    THEN LlegadasEmpujadas(sim[i], sim'[i]) =
            IF SiguienteLlegada(sim'[i]) < sim[i].duracionSimulacion
            THEN {Evento(SiguienteLlegada(sim'[i]), LLEGADA, -1, -1)}
            ELSE {}
    ELSE LlegadasEmpujadas(sim[i], sim'[i]) = {}

C30_SiguienteLlegada ==
    /\ [][\A i \in DOMAIN sim : Desencola(i) => ProgramaSiguiente(i)]_vars
    /\ [](\A i \in DOMAIN sim :
            /\ Cardinality(LlegadasPendientes(sim[i])) <= 1
            /\ \A j \in LlegadasPendientes(sim[i]) :
                  \/ sim[i].colaEventos[j].tiempo < sim[i].duracionSimulacion
                  \/ sim[i].clientes = <<>>)

\* after two arrivals have been processed the third is pending, scheduled
\* by the second, while services are pending too
C30_Testigo ==
    \E i \in DOMAIN sim :
        /\ Len(sim[i].clientes) >= 2
        /\ LlegadasPendientes(sim[i]) # {}
        /\ FinesPendientes(sim[i]) # {}

\* ------------------------------------------------------------------------
\* C31 - A run is a function of (configuration, seed) only: when
\* inicializar(config) is called on an engine whose run has returned, the
\* run that ejecutar then makes yields the Statistics of an engine freshly
\* constructed with the same configuration, seed, horizon and rate.
\* ------------------------------------------------------------------------
\* the Statistics of the run that starts at engine state eng
EstadisticasDeLaCorrida(eng) == getEstadisticas(ejecutar(eng))

C31_CorridaRepetible ==
    [][\A i \in DOMAIN sim :
          (pc[i] = "terminado" /\ corridas'[i] = corridas[i] + 1)
             => EstadisticasDeLaCorrida(sim'[i]) = EstadisticasSolo(i)]_vars

\* ------------------------------------------------------------------------
\* C32 - Route shape: the route of a customer is fixed at its arrival; it
\* starts with CAJAS and then lists, of REFRESCOS, FREIDORA, POSTRES and
\* POLLO in that order, the stations whose draw selected them; the station
\* ids of a route are strictly increasing, so no station is in it twice
\* and its length is between 1 and 5; a customer that finishes a service
\* at a station is not enqueued again at that station.
\* ------------------------------------------------------------------------
FormaDeRuta(r) ==
    /\ Len(r) >= 1
    /\ Len(r) <= NUM_ESTACIONES
    /\ r[1] = CAJAS
    /\ \A j \in DOMAIN r : r[j] \in 0..(NUM_ESTACIONES - 1)
    /\ \A j \in 1..(Len(r) - 1) : r[j] < r[j + 1]

\* the n-th state of the generator after r
RECURSIVE RngTras(_, _)
RngTras(r, n) == IF n = 0 THEN r ELSE RngAvanzar(RngTras(r, n - 1))

\* station s is in route r exactly when it is CAJAS or the draw made for
\* it, the (s + 1)-th after generator state r0, selected it
RutaSorteada(r, r0) ==
    \A s \in 0..(NUM_ESTACIONES - 1) :
        (\E j \in DOMAIN r : r[j] = s)
           <=> (s = CAJAS
                \/ debeVisitar(RngTras(r0, s + 1), probabilidadesEstaciones[s + 1]))

C32_FormaDeRuta ==
    /\ [](\A i \in DOMAIN sim :
            /\ \A k \in IdsCliente(sim[i]) :
                  FormaDeRuta(sim[i].clientes[k + 1].estaciones)
            /\ \A j \in DOMAIN sim[i].clientesCompletados :
                  FormaDeRuta(sim[i].clientesCompletados[j].estaciones))
    /\ [][\A i \in DOMAIN sim :
            corridas'[i] = corridas[i] =>
              /\ \A k \in IdsCliente(sim[i]) :
                    sim'[i].clientes[k + 1].estaciones
                       = sim[i].clientes[k + 1].estaciones
              /\ \A k \in IdsCliente(sim'[i]) \ IdsCliente(sim[i]) :
                    RutaSorteada(sim'[i].clientes[k + 1].estaciones, sim[i].rng)
              /\ (Desencola(i) /\ Desencolado(i).tipo = FIN_SERVICIO) =>
                    Desencolado(i).idCliente
                       \notin EsperandoEn(sim'[i], Desencolado(i).idEstacion)
                               \cup EnServicioEn(sim'[i], Desencolado(i).idEstacion)]_vars

\* a customer is past two stations of a route of three or more while
\* another customer has a shorter route, from which a station was left out
C32_Testigo ==
    \E i \in DOMAIN sim : \E a, b \in IdsCliente(sim[i]) :
        /\ Len(sim[i].clientes[a + 1].estaciones) >= 3
        /\ sim[i].clientes[a + 1].indiceEstacionActual >= 2
        /\ Len(sim[i].clientes[b + 1].estaciones)
              < Len(sim[i].clientes[a + 1].estaciones)
        /\ \E j \in 1..(Len(sim[i].clientes[b + 1].estaciones) - 1) :
              sim[i].clientes[b + 1].estaciones[j + 1]
                 > sim[i].clientes[b + 1].estaciones[j] + 1

\* ------------------------------------------------------------------------
\* C33 - System-time identity: the entry that a step appends to
\* clientesCompletados has tiempoEsperaTotal + tiempoServicioTotal (the
\* value getTiempoTotal gives and getEstadisticas averages) equal to the
\* time of the event that completed the customer minus its tiempoLlegada;
\* an entry of clientesCompletados keeps that value afterwards.
\* ------------------------------------------------------------------------
\* the entries appended to clientesCompletados between engine states a, b
RecienCompletados(a, b) ==
    {b.clientesCompletados[j] :
        j \in (Len(a.clientesCompletados) + 1)..Len(b.clientesCompletados)}

C33_TiempoEnSistema ==
    /\ [][\A i \in DOMAIN sim :
            Desencola(i) =>
               \A c \in RecienCompletados(sim[i], sim'[i]) :
                  /\ Desencolado(i).tipo = FIN_SERVICIO
                  /\ Desencolado(i).idCliente = c.id
                  /\ getTiempoTotal(c) = Desencolado(i).tiempo - c.tiempoLlegada]_vars
    /\ [](\A i \in DOMAIN sim : \A j \in DOMAIN sim[i].clientesCompletados :
            /\ getTiempoTotal(sim[i].clientesCompletados[j])
                  = getTiempoTotal(sim[i].clientes[sim[i].clientesCompletados[j].id + 1])
            /\ getTiempoTotal(sim[i].clientesCompletados[j])
                  <= sim[i].tiempoActual
                       - sim[i].clientesCompletados[j].tiempoLlegada)

\* a customer that waited in a queue, with a route of three or more
\* stations, has just been completed by an event after the horizon
C33_Testigo ==
    \E i \in DOMAIN sim : \E j \in DOMAIN sim[i].clientesCompletados :
        /\ sim[i].clientesCompletados[j].tiempoEsperaTotal >= 1
        /\ Len(sim[i].clientesCompletados[j].estaciones) >= 3
        /\ getTiempoTotal(sim[i].clientesCompletados[j])
              = sim[i].tiempoActual - sim[i].clientesCompletados[j].tiempoLlegada
        /\ sim[i].tiempoActual > sim[i].duracionSimulacion

\* ------------------------------------------------------------------------
\* C34 - Zero-server station: when a station is configured with 0 servers,
\* ejecutar still reaches its return; a customer that has reached that
\* station waits in its queue and stays there for the rest of the run, no
\* customer whose route contains it is ever in the completed set, at the
\* return every such customer is in that queue, and the utilization
\* reported for the station is 0.
\* ------------------------------------------------------------------------
SinServidores == {s \in 0..(NUM_ESTACIONES - 1) : ServidoresConfigurados(s) = 0}

EnRutaDe(eng, k, s) ==
    \E j \in DOMAIN eng.clientes[k + 1].estaciones :
        eng.clientes[k + 1].estaciones[j] = s

\* customer k has the station s as the current one of its route
LlegoA(eng, k, s) ==
    /\ eng.clientes[k + 1].indiceEstacionActual < Len(eng.clientes[k + 1].estaciones)
    /\ eng.clientes[k + 1].estaciones[eng.clientes[k + 1].indiceEstacionActual + 1] = s

EstacionSinServidores(eng, s) ==
    /\ \A k \in IdsCliente(eng) :
          /\ EnRutaDe(eng, k, s) => LugaresCompletado(eng, k) = {}
          /\ LlegoA(eng, k, s) =>
                k \in EsperandoEn(eng, s) /\ LugaresEnServicio(eng, k) = {}
    /\ EsCero(getEstadisticas(eng).utilizacionEstaciones[s + 1])
    /\ EsCero(getUtilizacion(eng.estaciones[s + 1], Max(eng.tiempoActual, 1)))

C34_EstacionSinServidores ==
    /\ [](\A i \in DOMAIN sim : \A s \in SinServidores \cap IdsEstacion(sim[i]) :
            EstacionSinServidores(sim[i], s))
    /\ [][\A i \in DOMAIN sim : \A s \in SinServidores \cap IdsEstacion(sim[i]) :
            corridas'[i] = corridas[i] =>
               \A k \in EsperandoEn(sim[i], s) : k \in EsperandoEn(sim'[i], s)]_vars
    /\ <>[](\A i \in DOMAIN sim :
              SinServidores # {} =>
                 /\ pc[i] = "terminado"
                 /\ \A s \in SinServidores : \A k \in IdsCliente(sim[i]) :
                       EnRutaDe(sim[i], k, s) => k \in EsperandoEn(sim[i], s))

\* a run returned with a customer left in the queue of a station that has
\* no server, and with another customer completed
C34_Testigo ==
    \E i \in DOMAIN sim : \E s \in SinServidores :
        /\ pc[i] = "terminado"
        /\ ColaDe(sim[i], s) # <<>>
        /\ sim[i].clientesCompletados # <<>>
        /\ sim[i].clientes[ColaDe(sim[i], s)[1] + 1].indiceEstacionActual >= 1

\* ------------------------------------------------------------------------
\* C35 - A service end frees exactly one server: an iteration that
\* processes a FIN_SERVICIO leaves at its station one busy server fewer
\* than before, not counting the services the same iteration starts, and
\* frees no server of any other station; Estacion::finalizarServicio frees
\* one server, the first busy one, when there is one, and changes nothing
\* when no server is busy: no flag, no busy time, no served counter.
\* ------------------------------------------------------------------------
\* the servers of station s that are busy in a and free in b
Liberados(a, b, s) ==
    {k \in DOMAIN a.estaciones[s + 1].servidorOcupado :
        /\ a.estaciones[s + 1].servidorOcupado[k]
        /\ ~b.estaciones[s + 1].servidorOcupado[k]}

LiberaUno(est, t) ==
    LET fin == finalizarServicio(est, t) IN
    IF ServidoresOcupados(est) = 0 THEN fin = est
    ELSE /\ ServidoresOcupados(fin) = ServidoresOcupados(est) - 1
         /\ \A k \in DOMAIN est.servidorOcupado :
               fin.servidorOcupado[k] # est.servidorOcupado[k]
                  => k = PrimerServidor(est, TRUE)
         /\ fin.colaEspera = est.colaEspera
         /\ fin.numServidores = est.numServidores
         /\ fin.totalAtendidos = est.totalAtendidos + 1

C35_LiberaUnServidor ==
    /\ [][\A i \in DOMAIN sim :
            (Desencola(i) /\ Desencolado(i).tipo = FIN_SERVICIO) =>
               \A s \in IdsEstacion(sim[i]) :
                  ServidoresOcupados(sim'[i].estaciones[s + 1])
                     = ServidoresOcupados(sim[i].estaciones[s + 1])
                       - (IF s = Desencolado(i).idEstacion THEN 1 ELSE 0)
                       + Cardinality(Iniciados(sim[i], sim'[i], s))]_vars
    /\ [](\A i \in DOMAIN sim : \A s \in IdsEstacion(sim[i]) :
            \A t \in {sim[i].tiempoActual, sim[i].tiempoActual + 1} :
               LiberaUno(sim[i].estaciones[s + 1], t))

\* of the two servers of a station the first has been freed, after a
\* service, while the second is still busy
C35_Testigo ==
    \E i \in DOMAIN sim : \E s \in IdsEstacion(sim[i]) :
        /\ sim[i].estaciones[s + 1].numServidores = 2
        /\ ~sim[i].estaciones[s + 1].servidorOcupado[1]
        /\ sim[i].estaciones[s + 1].servidorOcupado[2]
        /\ sim[i].estaciones[s + 1].totalAtendidos >= 1

\* ------------------------------------------------------------------------
\* C36 - Nothing to assign is a no-op: Estacion::iniciarServicio returns
\* -1 when the waiting queue is empty or when no server is free, and then
\* leaves the queue, the server flags and the busy-time accumulator as
\* they were; SimulacionColas::iniciarServicio then pushes no event and
\* changes no customer; in every other case the id returned is that of
\* the customer at the front of the queue.
\* ------------------------------------------------------------------------
NadaQueAsignar(est) == est.colaEspera = <<>> \/ ~hayServidorDisponible(est)

AsignaONada(eng, s, t) ==
    LET est == eng.estaciones[s + 1]
        inicio == Estacion_iniciarServicio(est, t)
    IN  IF NadaQueAsignar(est)
        THEN /\ inicio.ret = -1
             /\ inicio.est = est
             /\ iniciarServicio(eng, s) = eng
        ELSE /\ inicio.ret = Head(est.colaEspera)
             /\ inicio.ret >= 0
             /\ iniciarServicio(eng, s) # eng

C36_NadaQueAsignar ==
    \A i \in DOMAIN sim : \A s \in IdsEstacion(sim[i]) :
        \A t \in {sim[i].tiempoActual, sim[i].tiempoActual + 1} :
            AsignaONada(sim[i], s, t)

\* an engine with a station where customers wait and every server is
\* busy, and another whose queue is empty with a server free: at both
\* iniciarServicio gives -1
C36_Testigo ==
    \E i \in DOMAIN sim : \E s1, s2 \in IdsEstacion(sim[i]) :
        /\ sim[i].estaciones[s1 + 1].colaEspera # <<>>
        /\ sim[i].estaciones[s1 + 1].numServidores >= 1
        /\ ~hayServidorDisponible(sim[i].estaciones[s1 + 1])
        /\ sim[i].estaciones[s2 + 1].colaEspera = <<>>
        /\ hayServidorDisponible(sim[i].estaciones[s2 + 1])
        /\ Estacion_iniciarServicio(sim[i].estaciones[s1 + 1],
                                    sim[i].tiempoActual).ret = -1
        /\ Estacion_iniciarServicio(sim[i].estaciones[s2 + 1],
                                    sim[i].tiempoActual).ret = -1

\* ------------------------------------------------------------------------
\* C37 - Busy time is monotone and changes only at occupancy changes: in a
\* run the tiempoTotalOcupado of a station never decreases, and a step
\* changes it, the time of the last change or a server flag of a station
\* only if it starts a service there or processes a FIN_SERVICIO of that
\* station; agregarCliente changes the waiting queue and nothing else.
\* ------------------------------------------------------------------------
\* the step of instance i starts or ends a service at station s
CambioEn(i, s) ==
    \/ Iniciados(sim[i], sim'[i], s) # {}
    \/ /\ Desencola(i)
       /\ Desencolado(i).tipo = FIN_SERVICIO
       /\ Desencolado(i).idEstacion = s

SoloEncola(est, k, t) ==
    agregarCliente(est, k, t) = [est EXCEPT !.colaEspera = Append(@, k)]

C37_TiempoOcupadoMonotono ==
    /\ [][\A i \in DOMAIN sim : \A s \in IdsEstacion(sim[i]) :
            corridas'[i] = corridas[i] =>
               /\ sim'[i].estaciones[s + 1].tiempoTotalOcupado
                     >= sim[i].estaciones[s + 1].tiempoTotalOcupado
               /\ ~CambioEn(i, s) =>
                     /\ sim'[i].estaciones[s + 1].tiempoTotalOcupado
                           = sim[i].estaciones[s + 1].tiempoTotalOcupado
                     /\ sim'[i].estaciones[s + 1].tiempoUltimoCambio
                           = sim[i].estaciones[s + 1].tiempoUltimoCambio
                     /\ sim'[i].estaciones[s + 1].servidorOcupado
                           = sim[i].estaciones[s + 1].servidorOcupado]_vars
    /\ [](\A i \in DOMAIN sim : \A s \in IdsEstacion(sim[i]) :
            \A k \in 0..Len(sim[i].clientes) :
               SoloEncola(sim[i].estaciones[s + 1], k, sim[i].tiempoActual))

\* a customer was enqueued at a station whose servers are all busy, after
\* the last change of occupancy there, and the station has busy time
C37_Testigo ==
    \E i \in DOMAIN sim : \E s \in IdsEstacion(sim[i]) :
        /\ sim[i].estaciones[s + 1].tiempoTotalOcupado > 0
        /\ ~hayServidorDisponible(sim[i].estaciones[s + 1])
        /\ \E k \in EsperandoEn(sim[i], s) :
              sim[i].clientes[k + 1].tiempoEntradaCola
                 > sim[i].estaciones[s + 1].tiempoUltimoCambio

\* ------------------------------------------------------------------------
\* C38 - Bounded cascade per handler: an iteration of ejecutar dequeues
\* one event and runs its handler to the end, leaving no free server next
\* to a waiting customer at the stations it touched; an iteration that
\* handles an arrival starts at most one service, at CAJAS, and pushes at
\* most one LLEGADA and one FIN_SERVICIO; an iteration that handles a
\* service end starts at most two services, one at the next station of
\* the customer and one at the freed station, and pushes at most two
\* FIN_SERVICIO events and no LLEGADA; every service started pushes one
\* FIN_SERVICIO.
\* ------------------------------------------------------------------------
\* how many events of type tp the step from a to b pushed: the dequeued
\* event is of type tpTop
NumEmpujados(a, b, tp, tpTop) ==
    Cardinality({j \in DOMAIN b.colaEventos : b.colaEventos[j].tipo = tp})
    - Cardinality({j \in DOMAIN a.colaEventos : a.colaEventos[j].tipo = tp})
    + (IF tp = tpTop THEN 1 ELSE 0)

\* the stations where the step from a to b started a service
EstacionesDeInicio(a, b) == {s \in IdsEstacion(a) : Iniciados(a, b, s) # {}}

NumIniciados(a, b) ==
    Cardinality(UNION {Iniciados(a, b, s) : s \in IdsEstacion(a)})

\* the station handler e sends its customer to, none at the route's end
SiguienteDe(b, e) ==
    LET c == b.clientes[e.idCliente + 1] IN
    IF c.indiceEstacionActual < Len(c.estaciones)
    THEN {c.estaciones[c.indiceEstacionActual + 1]} ELSE {}

Asentada(b, s) ==
    ~(b.estaciones[s + 1].colaEspera # <<>>
      /\ hayServidorDisponible(b.estaciones[s + 1]))

CascadaAcotada(a, b, e) ==
    /\ Len(b.colaEventos) + 1
          = Len(a.colaEventos) + NumEmpujados(a, b, LLEGADA, e.tipo)
                               + NumEmpujados(a, b, FIN_SERVICIO, e.tipo)
    /\ NumEmpujados(a, b, FIN_SERVICIO, e.tipo) = NumIniciados(a, b)
    /\ IF e.tipo = LLEGADA
       THEN /\ NumIniciados(a, b) <= 1
            /\ EstacionesDeInicio(a, b) \subseteq {CAJAS}
            /\ NumEmpujados(a, b, LLEGADA, e.tipo) \in {0, 1}
            /\ e.tiempo >= a.duracionSimulacion =>
                  /\ NumIniciados(a, b) = 0
                  /\ NumEmpujados(a, b, LLEGADA, e.tipo) = 0
            /\ Asentada(b, CAJAS)
       ELSE /\ NumIniciados(a, b) <= 2
            /\ EstacionesDeInicio(a, b)
                  \subseteq {e.idEstacion} \cup SiguienteDe(b, e)
            /\ \A s \in IdsEstacion(a) : Cardinality(Iniciados(a, b, s)) <= 1
            /\ NumEmpujados(a, b, LLEGADA, e.tipo) = 0
            /\ \A s \in {e.idEstacion} \cup SiguienteDe(b, e) : Asentada(b, s)

C38_CascadaAcotada ==
    [][\A i \in DOMAIN sim :
          Desencola(i) => CascadaAcotada(sim[i], sim'[i], Desencolado(i))]_vars

\* a service end at one instant moved its customer into service at the
\* next station of its route and put the customer that was waiting at
\* the freed station, of one server, into service there
C38_Testigo ==
    \E i \in DOMAIN sim : \E k1, k2 \in IdsCliente(sim[i]) :
      \E s1, s2 \in IdsEstacion(sim[i]) :
        /\ k1 # k2
        /\ s1 # s2
        /\ k1 \in EnServicioEn(sim[i], s1)
        /\ k2 \in EnServicioEn(sim[i], s2)
        /\ sim[i].clientes[k1 + 1].indiceEstacionActual >= 1
        /\ sim[i].clientes[k1 + 1].estaciones[
              sim[i].clientes[k1 + 1].indiceEstacionActual] = s2
        /\ sim[i].clientes[k1 + 1].tiempoEntradaCola = sim[i].tiempoActual
        /\ sim[i].estaciones[s2 + 1].numServidores = 1
        /\ sim[i].estaciones[s2 + 1].tiempoUltimoCambio = sim[i].tiempoActual
        /\ sim[i].clientes[k2 + 1].tiempoEntradaCola < sim[i].tiempoActual

\* ------------------------------------------------------------------------
\* C39 - Stable customer indexing: customer ids are given consecutively
\* from 0 in the order of arrival; the customer with id k is at index k of
\* the customer table for the whole run, where its id, arrival time,
\* orders and route do not change; an id is not given twice in a run; the
\* station queues, the events and the completed set name customers by ids
\* of that table only.
\* ------------------------------------------------------------------------
IndicesEstables(eng) ==
    /\ eng.siguienteIdCliente = Len(eng.clientes)
    /\ \A k \in IdsCliente(eng) : eng.clientes[k + 1].id = k
    /\ \A k \in IdsCliente(eng) : \A m \in IdsCliente(eng) :
          k < m => eng.clientes[k + 1].tiempoLlegada
                      <= eng.clientes[m + 1].tiempoLlegada
    /\ \A s \in IdsEstacion(eng) : EsperandoEn(eng, s) \subseteq IdsCliente(eng)
    /\ \A j \in FinesPendientes(eng) :
          eng.colaEventos[j].idCliente \in IdsCliente(eng)
    /\ \A j \in DOMAIN eng.clientesCompletados :
          eng.clientesCompletados[j].id \in IdsCliente(eng)

TablaEstable(a, b) ==
    /\ Len(b.clientes) \in {Len(a.clientes), Len(a.clientes) + 1}
    /\ \A k \in IdsCliente(a) :
          /\ b.clientes[k + 1].id = a.clientes[k + 1].id
          /\ b.clientes[k + 1].tiempoLlegada = a.clientes[k + 1].tiempoLlegada
          /\ b.clientes[k + 1].numOrdenes = a.clientes[k + 1].numOrdenes
          /\ b.clientes[k + 1].estaciones = a.clientes[k + 1].estaciones
    /\ \A k \in IdsCliente(b) \ IdsCliente(a) :
          /\ b.clientes[k + 1].id = a.siguienteIdCliente
          /\ b.clientes[k + 1].tiempoLlegada = b.tiempoActual

C39_IndicesEstables ==
    /\ [](\A i \in DOMAIN sim : IndicesEstables(sim[i]))
    /\ [][\A i \in DOMAIN sim :
            corridas'[i] = corridas[i] => TablaEstable(sim[i], sim'[i])]_vars

\* of three or more customers one with id 1 or more waits in a queue,
\* one with id 2 or more is in service and an earlier one has completed
C39_Testigo ==
    \E i \in DOMAIN sim :
        /\ Len(sim[i].clientes) >= 3
        /\ \E s \in IdsEstacion(sim[i]) : \E k \in EsperandoEn(sim[i], s) : k >= 1
        /\ \E j \in FinesPendientes(sim[i]) : sim[i].colaEventos[j].idCliente >= 2
        /\ sim[i].clientesCompletados # <<>>

\* ------------------------------------------------------------------------
\* C40 - Service time is accumulated at completion: at every point of a
\* run the tiempoServicioTotal of a customer is the sum of the durations
\* of the services that customer has finished; the duration of a service
\* in progress is not in it until its FIN_SERVICIO is processed.
\* ------------------------------------------------------------------------
\* the duration of the service of customer k that begins between engine
\* states a and b, 0 when none does
DuracionIniciadaDe(a, b, k) ==
    SumaSeq([s \in 1..NUM_ESTACIONES |->
               IF k \in Iniciados(a, b, s - 1)
               THEN SumaSeq([j \in 1..Len(b.colaEventos) |->
                               IF /\ b.colaEventos[j].tipo = FIN_SERVICIO
                                  /\ b.colaEventos[j].idEstacion = s - 1
                                  /\ b.colaEventos[j].idCliente = k
                               THEN b.colaEventos[j].tiempo - b.tiempoActual
                               ELSE 0],
                            Len(b.colaEventos))
               ELSE 0],
            NUM_ESTACIONES)

\* the durations of the services customer k has finished when the run
\* that continues from eng reaches engine state meta, added to acum;
\* enCurso is the duration of the service of k in progress at eng
RECURSIVE ServicioTerminado(_, _, _, _, _)
ServicioTerminado(eng, meta, k, acum, enCurso) ==
    IF eng = meta \/ eng.colaEventos = <<>> THEN acum
    ELSE Sea(ejecutarIteracion(eng),
             LAMBDA eng1 :
                LET e == ColaTop(eng.colaEventos)
                    termina == e.tipo = FIN_SERVICIO /\ e.idCliente = k
                    inicia == \E s \in IdsEstacion(eng) : k \in Iniciados(eng, eng1, s)
                IN  ServicioTerminado(
                        eng1, meta, k,
                        IF termina THEN acum + enCurso ELSE acum,
                        IF inicia THEN DuracionIniciadaDe(eng, eng1, k)
                        ELSE IF termina THEN 0 ELSE enCurso))

\* the services customer k of instance i has finished so far in its run
ServicioTerminadoDe(i, k) ==
    ServicioTerminado(
        inicializar(SimulacionColas(i, sim[i].duracionSimulacion,
                                    sim[i].tasaLlegada, semilla[i]),
                    config),
        sim[i], k, 0, 0)

C40_ServicioAlTerminar ==
    \A i \in DOMAIN sim : \A k \in IdsCliente(sim[i]) :
        sim[i].clientes[k + 1].tiempoServicioTotal = ServicioTerminadoDe(i, k)

====
